---- MODULE Spec2Model ----
(***************************************************************************)
(* Model of the loan calculator (src/src/App.js, the URL-aware App, and    *)
(* its earlier variant src/unnamed/part_000).                              *)
(*                                                                         *)
(* JavaScript numbers are binary floating point.  The model keeps that:    *)
(* a number is NaN, +/-Infinity or sign * m * 2^e with a mantissa of       *)
(* Precision bits, and every arithmetic operation rounds its exact result  *)
(* to the nearest representable value (ties to even), as IEEE 754 does     *)
(* with 53 bits.                                                           *)
(***************************************************************************)
EXTENDS Integers, Sequences, FiniteSets, TLC

\* Mantissa width of the model's floating point numbers.
Precision == 13

TwoP == 2 ^ Precision
HalfP == 2 ^ (Precision - 1)

----------------------------------------------------------------------------
(* Floating point values                                                   *)

NaN == [k |-> "nan", s |-> 1, m |-> 0, e |-> 0]
Inf(sgn) == [k |-> "inf", s |-> sgn, m |-> 0, e |-> 0]
Zero == [k |-> "fin", s |-> 1, m |-> 0, e |-> 0]
Fin(sgn, mant, ex) == [k |-> "fin", s |-> sgn, m |-> mant, e |-> ex]

IsNaN(a) == a.k = "nan"
IsInf(a) == a.k = "inf"
IsFin(a) == a.k = "fin"
IsZero(a) == a.k = "fin" /\ a.m = 0

RECURSIVE BitLen(_)
BitLen(n) ==
    IF n = 0 THEN 0
    ELSE IF n >= 4096 THEN 12 + BitLen(n \div 4096)
    ELSE IF n >= 64 THEN 6 + BitLen(n \div 64)
    ELSE IF n >= 8 THEN 3 + BitLen(n \div 8)
    ELSE 1 + BitLen(n \div 2)

\* sgn * mant * 2^ex with the mantissa shifted by kk bits: the nearest
\* representable value, ties to even.
RoundBy(sgn, mant, ex, kk) ==
    IF kk <= 0 THEN Fin(sgn, mant * (2 ^ (0 - kk)), ex + kk)
    ELSE LET q == mant \div (2 ^ kk)
             r == mant % (2 ^ kk)
             half == 2 ^ (kk - 1)
             q2 == IF r > half \/ (r = half /\ q % 2 = 1) THEN q + 1 ELSE q
         IN IF q2 = TwoP THEN Fin(sgn, HalfP, ex + kk + 1)
            ELSE Fin(sgn, q2, ex + kk)

\* The representable value nearest to sgn * mant * 2^ex, ties to even.
Round(sgn, mant, ex) ==
    IF mant = 0 THEN Zero
    ELSE RoundBy(sgn, mant, ex, BitLen(mant) - Precision)

\* An integer literal or an integer-valued input as a number.
FromInt(i) == IF i < 0 THEN Round(-1, 0 - i, 0) ELSE Round(1, i, 0)

\* |a| < |b| for numbers that are not NaN.
MagLt(a, b) ==
    IF IsInf(a) THEN FALSE
    ELSE IF IsInf(b) THEN TRUE
    ELSE IF a.m = 0 THEN b.m # 0
    ELSE IF b.m = 0 THEN FALSE
    ELSE a.e < b.e \/ (a.e = b.e /\ a.m < b.m)

\* a < b
FLt(a, b) ==
    /\ ~IsNaN(a)
    /\ ~IsNaN(b)
    /\ IF a.s # b.s THEN a.s = -1
       ELSE IF a.s = 1 THEN MagLt(a, b) ELSE MagLt(b, a)

\* a === b
FEq(a, b) == ~IsNaN(a) /\ ~IsNaN(b) /\ a = b

\* a <= b
FLe(a, b) == FLt(a, b) \/ FEq(a, b)

\* a > b
FGt(a, b) == FLt(b, a)

\* a >= b
FGe(a, b) == FLe(b, a)

\* -a
FNeg(a) ==
    IF IsNaN(a) \/ IsZero(a) THEN a
    ELSE [a EXCEPT !.s = 0 - a.s]

\* a * b
FMul(a, b) ==
    IF IsNaN(a) \/ IsNaN(b) THEN NaN
    ELSE IF IsInf(a) \/ IsInf(b)
         THEN IF IsZero(a) \/ IsZero(b) THEN NaN ELSE Inf(a.s * b.s)
    ELSE Round(a.s * b.s, a.m * b.m, a.e + b.e)

\* a / b
FDiv(a, b) ==
    IF IsNaN(a) \/ IsNaN(b) THEN NaN
    ELSE IF IsInf(a) THEN (IF IsInf(b) THEN NaN ELSE Inf(a.s * b.s))
    ELSE IF IsInf(b) THEN Zero
    ELSE IF IsZero(b) THEN (IF IsZero(a) THEN NaN ELSE Inf(a.s))
    ELSE IF IsZero(a) THEN Zero
    ELSE LET num == a.m * (2 ^ (Precision + 1))
             q == num \div b.m
             r == num % b.m
         IN Round(a.s * b.s, 2 * q + (IF r # 0 THEN 1 ELSE 0),
                  a.e - b.e - Precision - 2)

\* a + b for finite a, b with |a| >= |b|, b # 0: three extra bits, the
\* last one sticky.
AddOrdered(a, b) ==
    LET d == a.e - b.e
        ma == a.m * 8
        t == b.m * 8
        mb == IF d >= Precision + 3 THEN 1
              ELSE LET q == t \div (2 ^ d)
                   IN IF t % (2 ^ d) # 0 /\ q % 2 = 0 THEN q + 1 ELSE q
    IN Round(a.s, IF a.s = b.s THEN ma + mb ELSE ma - mb, a.e - 3)

\* a + b
FAdd(a, b) ==
    IF IsNaN(a) \/ IsNaN(b) THEN NaN
    ELSE IF IsInf(a) THEN (IF IsInf(b) /\ a.s # b.s THEN NaN ELSE a)
    ELSE IF IsInf(b) THEN b
    ELSE IF IsZero(b) THEN a
    ELSE IF IsZero(a) THEN b
    ELSE IF MagLt(a, b) THEN AddOrdered(b, a) ELSE AddOrdered(a, b)

\* a - b
FSub(a, b) == FAdd(a, FNeg(b))

\* Math.max(a, b)
FMax(a, b) ==
    IF IsNaN(a) \/ IsNaN(b) THEN NaN
    ELSE IF FLt(a, b) THEN b ELSE a

\* Math.abs(a)
FAbs(a) == IF IsNaN(a) THEN a ELSE [a EXCEPT !.s = 1]

One == FromInt(1)

\* x^n from h = x^(n div 2): h * h, times x for an odd n.
PowStep(h, x, n) ==
    IF IsNaN(h) THEN NaN
    ELSE IF n % 2 = 0 THEN FMul(h, h)
    ELSE FMul(FMul(h, h), x)

\* x^n for a natural n, by squaring.
RECURSIVE PowNat(_, _)
PowNat(x, n) ==
    IF n = 0 THEN One
    ELSE IF n = 1 THEN x
    ELSE PowStep(PowNat(x, n \div 2), x, n)

\* Math.pow(x, n) for an integer exponent n.
FPow(x, n) ==
    IF n = 0 THEN One
    ELSE IF n > 0 THEN PowNat(x, n)
    ELSE FDiv(One, PowNat(x, 0 - n))

\* A decimal literal num/den (0.7 is Dec(7, 10)): the nearest number.
Dec(num, den) == FDiv(FromInt(num), FromInt(den))

----------------------------------------------------------------------------
(* State of the App component                                              *)

VARIABLES
    \* inputs
    calculationMode, loanType, interestRate, loanTerm,
    downPayment1, downPayment2, ownershipSplit,
    municipalDues, homeInsurance, hoa, maintenance, rentalIncome,
    propertyTaxMode, customPropertyTaxAmount,
    desiredMonthlyPayment, propertyValue,
    annualAppreciation, requiredReturn, alternativeRentCost,
    \* calculated outputs
    loanAmount, finalPropertyValue, calculatedMonthlyPayment,
    amortizationData, totalInterest, loanDetails1, loanDetails2, propertyTax,
    \* outputs of the total cost effect
    totalMonthlyCost, netMonthlyCost,
    \* the recalculation effect is scheduled; the total cost effect is
    \* scheduled; the input handler that ran last
    recalcPending, costPending, lastEvent,
    \* window.location.hash; the pending setTimeout callbacks, oldest first,
    \* each with the inputs its updateURL closure holds; the debounce effect
    \* is scheduled; the renders since the last input event
    urlHash, timers, urlPending, renderPasses

inputVars == <<calculationMode, loanType, interestRate, loanTerm,
               downPayment1, downPayment2, ownershipSplit,
               municipalDues, homeInsurance, hoa, maintenance, rentalIncome,
               propertyTaxMode, customPropertyTaxAmount,
               desiredMonthlyPayment, propertyValue,
               annualAppreciation, requiredReturn, alternativeRentCost>>

outputVars == <<loanAmount, finalPropertyValue, calculatedMonthlyPayment,
                amortizationData, totalInterest, loanDetails1, loanDetails2,
                propertyTax>>

costVars == <<totalMonthlyCost, netMonthlyCost>>

linkVars == <<urlHash, timers>>

vars == <<inputVars, outputVars, costVars, recalcPending, costPending,
          lastEvent, linkVars, urlPending, renderPasses>>

----------------------------------------------------------------------------
(* Input values                                                            *)

\* Interest rates in hundredths of a percent point (the slider step).
RateValues == {0, 520, 2000}
\* Loan terms in years.
TermValues == {-1, 0, 1, 2}
PropertyValues == {0, 4096000, 6144000}
SplitValues == {0, 37, 100}
DownPayment1Values == {0, 1024000, 16384000}
DownPayment2Values == {0, 512000}
LoanTypeValues == {"annuity", "serial", "balloon"}
ModeValues == {"byPrice", "byPayment"}
TaxModeValues == {"oslo", "custom"}
\* Property values below 0 (from the URL) and above the tax deduction.
TaxedPropertyValues == {-4096000, 8192000}
\* Desired monthly payments: none, below the fixed costs, just above them,
\* and the default.
PaymentValues == {0, 1000, 2000, 20000}
\* Yearly maintenance: none and the default.
MaintenanceValues == {0, 24000}
\* investment inputs: a required return of 0 is what the emptied number
\* field hands over
InvestmentTermValues == {1, 2}
RentalValues == {2000, 25000}
AppreciationValues == {-10, 3}
ReturnValues == {0, 5}
RentValues == {5000, 30000}

----------------------------------------------------------------------------
(* The calculation engine                                                  *)

\* Without Math.max: a value below the deduction gives a negative tax.
calculatePropertyTax_noDeductionFloor(pv, mode, customAmount) ==
    IF FLe(pv, Zero) THEN Zero
    ELSE IF mode = "oslo"
         THEN FMul(FSub(FMul(pv, Dec(7, 10)), FromInt(4700000)),
                   Dec(235, 100000))
         ELSE customAmount

\* Without the test of the property value: the custom amount also for a
\* property value <= 0.
calculatePropertyTax_unguarded(pv, mode, customAmount) ==
    IF mode = "oslo"
    THEN FMul(FMax(Zero, FSub(FMul(pv, Dec(7, 10)), FromInt(4700000))),
              Dec(235, 100000))
    ELSE customAmount

calculatePropertyTax(pv, mode, customAmount) ==
    IF FLe(pv, Zero) THEN Zero
    ELSE IF mode = "oslo"
         THEN LET taxableBase ==
                      FMax(Zero, FSub(FMul(pv, Dec(7, 10)), FromInt(4700000)))
              IN FMul(taxableBase, Dec(235, 100000))
         ELSE customAmount

monthlyInterestRate == FDiv(FDiv(interestRate, FromInt(100)), FromInt(12))
numberOfPayments == loanTerm * 12

\* (1 + r)^n
growthFactorOf(r, n) == FPow(FAdd(One, r), n)

\* (1 + monthlyInterestRate)^numberOfPayments
growthFactor == growthFactorOf(monthlyInterestRate, numberOfPayments)

\* The payment left for principal and interest at an estimated value.
pAndIOf(estimatedPropertyValue) ==
    LET estimatedPropertyTax ==
            calculatePropertyTax(estimatedPropertyValue, propertyTaxMode,
                                 FromInt(customPropertyTaxAmount))
        otherCosts ==
            FAdd(FAdd(FAdd(FDiv(FromInt(municipalDues), FromInt(12)),
                           FDiv(FromInt(homeInsurance), FromInt(12))),
                      FDiv(estimatedPropertyTax, FromInt(12))),
                 FromInt(hoa))
    IN FSub(FAdd(FromInt(desiredMonthlyPayment), FromInt(rentalIncome)),
            otherCosts)

\* The loan that pAndI a month repays at the monthly rate r over n
\* payments, pw being the growth factor.
maxLoanOf(pAndI, r, n, pw) ==
    IF loanType = "annuity"
    THEN FMul(pAndI, FDiv(FSub(pw, One), FMul(r, pw)))
    ELSE FDiv(pAndI, FAdd(FDiv(One, FromInt(n)), r))

\* The solver's variables before the first iteration; estimates lists the
\* estimates made so far, floor tells that pAndI <= 0 ended the loop.
affordabilityStart ==
    [estimatedPropertyValue |->
         FMul(FromInt(desiredMonthlyPayment), FromInt(200)),
     maxLoan |-> Zero,
     iterations |-> 0,
     estimates |-> <<FMul(FromInt(desiredMonthlyPayment), FromInt(200))>>,
     floor |-> FALSE]

\* The solver's variables after iteration i has made a new estimate.
affordabilityUpdate(i, st, newMaxLoan, newEstimatedPropertyValue) ==
    [estimatedPropertyValue |-> newEstimatedPropertyValue,
     maxLoan |-> newMaxLoan,
     iterations |-> i + 1,
     estimates |-> Append(st.estimates, newEstimatedPropertyValue),
     floor |-> FALSE]

\* The difference below which two estimates count as the same, mistaken
\* for 1000000.
stabilized_coarse(newEstimatedPropertyValue, estimatedPropertyValue) ==
    FLt(FAbs(FSub(newEstimatedPropertyValue, estimatedPropertyValue)),
        FromInt(1000000))

\* Math.abs(newEstimatedPropertyValue - estimatedPropertyValue) < 1000
stabilized(newEstimatedPropertyValue, estimatedPropertyValue) ==
    FLt(FAbs(FSub(newEstimatedPropertyValue, estimatedPropertyValue)),
        FromInt(1000))

\* The solver's loop from iteration i on: the variables it ends with.
RECURSIVE affordabilityLoop(_, _, _, _, _)
affordabilityStabilized(i, st, newMaxLoan, newEstimatedPropertyValue, totalDownPayment, r, n) ==
    IF stabilized(newEstimatedPropertyValue, st.estimatedPropertyValue)
    THEN affordabilityUpdate(i, st, newMaxLoan, newEstimatedPropertyValue)
    ELSE affordabilityLoop(i + 1,
             affordabilityUpdate(i, st, newMaxLoan,
                                 newEstimatedPropertyValue),
             totalDownPayment, r, n)

affordabilityEstimate(i, st, newMaxLoan, totalDownPayment, r, n) ==
    affordabilityStabilized(i, st, newMaxLoan,
                            FAdd(newMaxLoan, totalDownPayment),
                            totalDownPayment, r, n)

\* pAndI <= 0 ends the loop without maxLoan = 0: the loan of the iteration
\* before is kept.
affordabilityIteration_keepLoan(i, st, pAndI, totalDownPayment, r, n) ==
    IF FLe(pAndI, Zero)
    THEN [st EXCEPT !.iterations = i + 1, !.floor = TRUE]
    ELSE affordabilityEstimate(i, st,
                               maxLoanOf(pAndI, r, n, growthFactorOf(r, n)),
                               totalDownPayment, r, n)

affordabilityIteration(i, st, pAndI, totalDownPayment, r, n) ==
    IF FLe(pAndI, Zero)
    THEN [st EXCEPT !.maxLoan = Zero, !.iterations = i + 1, !.floor = TRUE]
    ELSE affordabilityEstimate(i, st,
                               maxLoanOf(pAndI, r, n, growthFactorOf(r, n)),
                               totalDownPayment, r, n)

\* The loop with room for two more iterations.
affordabilityLoop_twelve(i, st, totalDownPayment, r, n) ==
    IF i >= 12 THEN st
    ELSE affordabilityIteration(i, st, pAndIOf(st.estimatedPropertyValue),
                                totalDownPayment, r, n)

affordabilityLoop(i, st, totalDownPayment, r, n) ==
    IF i >= 10 THEN st
    ELSE affordabilityIteration(i, st, pAndIOf(st.estimatedPropertyValue),
                                totalDownPayment, r, n)

\* The loan is returned as it is, NaN or negative included.
positiveLoan_unclamped(st) == st.maxLoan

\* maxLoan > 0 ? maxLoan : 0
positiveLoan(st) == IF FGt(st.maxLoan, Zero) THEN st.maxLoan ELSE Zero

\* { maxLoan, maxPropertyPrice: maxLoan + totalDownPayment }, with the
\* solver's last variables.
affordabilityResult(maxLoan, st, totalDownPayment) ==
    [maxLoan |-> maxLoan,
     maxPropertyPrice |-> FAdd(maxLoan, totalDownPayment),
     iterations |-> st.iterations,
     estimates |-> st.estimates,
     floor |-> st.floor,
     lastLoan |-> st.maxLoan]

affordabilityOutcome(st, totalDownPayment) ==
    affordabilityResult(positiveLoan(st), st, totalDownPayment)

\* return { maxLoan: 0, maxPropertyPrice: totalDownPayment }
shortCircuit(totalDownPayment) ==
    [maxLoan |-> Zero, maxPropertyPrice |-> totalDownPayment,
     iterations |-> 0, estimates |-> <<>>, floor |-> FALSE,
     lastLoan |-> Zero]

\* The guard of the solver of src/unnamed/part_000 and of the first variant
\* in src/src/App.js: no test for finite values.
degenerateInputs_earlier(rate, term) ==
    \/ desiredMonthlyPayment <= 0
    \/ FLe(rate, Zero)
    \/ term <= 0

\* The guard with its three !isFinite(...) tests left out.
degenerateInputs_noFiniteTest(rate, term) ==
    \/ desiredMonthlyPayment <= 0
    \/ FLe(rate, Zero)
    \/ term <= 0

\* desiredMonthlyPayment <= 0 || interestRate <= 0 || loanTerm <= 0 ||
\* !isFinite(...)
degenerateInputs(rate, term) ==
    \/ desiredMonthlyPayment <= 0
    \/ FLe(rate, Zero)
    \/ term <= 0
    \/ ~IsFin(rate)

\* The solver at an annual rate in percent and a term in years.
calculateAffordabilityFor(rate, term, totalDownPayment) ==
    IF degenerateInputs(rate, term) THEN shortCircuit(totalDownPayment)
    ELSE affordabilityOutcome(
             affordabilityLoop(0, affordabilityStart, totalDownPayment,
                 FDiv(FDiv(rate, FromInt(100)), FromInt(12)), term * 12),
             totalDownPayment)

calculateAffordability(totalDownPayment) ==
    calculateAffordabilityFor(interestRate, loanTerm, totalDownPayment)

\* The single pass of the first variant of the solver: pAndI at the first
\* estimate, no further estimate.
firstPass(pAndI, totalDownPayment, r, n) ==
    IF FLe(pAndI, Zero)
    THEN [shortCircuit(totalDownPayment) EXCEPT
              !.iterations = 1,
              !.estimates = affordabilityStart.estimates,
              !.floor = TRUE]
    ELSE affordabilityOutcome(
             [affordabilityStart EXCEPT
                  !.maxLoan = maxLoanOf(pAndI, r, n, growthFactorOf(r, n)),
                  !.iterations = 1],
             totalDownPayment)

\* The first variant of the solver at an annual rate in percent and a term
\* in years.
calculateAffordabilityFirstFor(rate, term, totalDownPayment) ==
    IF degenerateInputs_earlier(rate, term)
    THEN shortCircuit(totalDownPayment)
    ELSE firstPass(pAndIOf(affordabilityStart.estimatedPropertyValue),
                   totalDownPayment,
                   FDiv(FDiv(rate, FromInt(100)), FromInt(12)), term * 12)

calculateAffordabilityFirst(totalDownPayment) ==
    calculateAffordabilityFirstFor(interestRate, loanTerm, totalDownPayment)

\* The solver of src/unnamed/part_000: the same loop behind the guard
\* without the test for finite values.
calculateAffordabilityEarlierFor(rate, term, totalDownPayment) ==
    IF degenerateInputs_earlier(rate, term)
    THEN shortCircuit(totalDownPayment)
    ELSE affordabilityOutcome(
             affordabilityLoop(0, affordabilityStart, totalDownPayment,
                 FDiv(FDiv(rate, FromInt(100)), FromInt(12)), term * 12),
             totalDownPayment)

calculateAffordabilityEarlier(totalDownPayment) ==
    calculateAffordabilityEarlierFor(interestRate, loanTerm, totalDownPayment)

\* The balance recorded as it is, negative when the last payment overshoots.
clampBalance_unclamped(balance) == balance

\* balance < 0 ? 0 : balance
clampBalance(balance) == IF FLt(balance, Zero) THEN Zero ELSE balance

\* The loop's variables before the first month.
loopStart(amount) ==
    [balance |-> amount, totalInterestPaid |-> Zero, amortization |-> <<>>,
     firstMonthPayment |-> Zero]

\* One month of the annuity loop: the loop's variables after month i.
annuityMonth(i, st, M, interestPayment, principalPayment, newBalance) ==
    [balance |-> newBalance,
     totalInterestPaid |-> FAdd(st.totalInterestPaid, interestPayment),
     amortization |->
         Append(st.amortization,
                [month |-> i, principal |-> principalPayment,
                 interest |-> interestPayment,
                 balance |-> clampBalance(newBalance),
                 totalPayment |-> M]),
     firstMonthPayment |-> M]

annuityPrincipal(i, st, M, interestPayment, principalPayment) ==
    annuityMonth(i, st, M, interestPayment, principalPayment,
                 FSub(st.balance, principalPayment))

annuityInterest(i, st, M, interestPayment) ==
    annuityPrincipal(i, st, M, interestPayment, FSub(M, interestPayment))

annuityStep(i, st, M) ==
    annuityInterest(i, st, M, FMul(st.balance, monthlyInterestRate))

\* for (let i = 1; i <= numberOfPayments; i++) { if (balance <= 0) break; ... }
RECURSIVE annuityLoop(_, _, _)
annuityLoop(i, st, M) ==
    IF i > numberOfPayments \/ FLe(st.balance, Zero) THEN st
    ELSE annuityLoop(i + 1, annuityStep(i, st, M), M)

\* M = amount * (r * pw) / (pw - 1), pw being the growth factor
annuityPaymentWith(amount, pw) ==
    FDiv(FMul(amount, FMul(monthlyInterestRate, pw)), FSub(pw, One))

annuityPaymentOf(amount) == annuityPaymentWith(amount, growthFactor)

\* What calculateLoanDetails returns of the loop's variables.
detailsOf(st, firstMonthPayment) ==
    [firstMonthPayment |-> firstMonthPayment,
     totalInterestPaid |-> st.totalInterestPaid,
     amortization |-> st.amortization]

annuitySchedule(amount, M) ==
    detailsOf(annuityLoop(1, loopStart(amount), M), M)

annuityDetails(amount) == annuitySchedule(amount, annuityPaymentOf(amount))

\* One month of the serial loop: the loop's variables after month i.
serialMonth(i, st, principalPerMonth, interestPayment, totalPaymentThisMonth, newBalance) ==
    [balance |-> newBalance,
     totalInterestPaid |-> FAdd(st.totalInterestPaid, interestPayment),
     amortization |->
         Append(st.amortization,
                [month |-> i, principal |-> principalPerMonth,
                 interest |-> interestPayment,
                 balance |-> clampBalance(newBalance),
                 totalPayment |-> totalPaymentThisMonth]),
     firstMonthPayment |-> IF i = 1 THEN totalPaymentThisMonth
                           ELSE st.firstMonthPayment]

serialInterest(i, st, principalPerMonth, interestPayment) ==
    serialMonth(i, st, principalPerMonth, interestPayment,
                FAdd(principalPerMonth, interestPayment),
                FSub(st.balance, principalPerMonth))

serialStep(i, st, principalPerMonth) ==
    serialInterest(i, st, principalPerMonth,
                   FMul(st.balance, monthlyInterestRate))

\* for (let i = 1; i <= numberOfPayments; i++) { if (balance <= 0) break; ... }
RECURSIVE serialLoop(_, _, _)
serialLoop(i, st, principalPerMonth) ==
    IF i > numberOfPayments \/ FLe(st.balance, Zero) THEN st
    ELSE serialLoop(i + 1, serialStep(i, st, principalPerMonth),
                    principalPerMonth)

serialSchedule(st) == detailsOf(st, st.firstMonthPayment)

\* The principal spread over the years of the term, not over its months.
serialDetails_perYear(amount) ==
    serialSchedule(serialLoop(1, loopStart(amount),
                              FDiv(amount, FromInt(loanTerm))))

serialDetails(amount) ==
    serialSchedule(serialLoop(1, loopStart(amount),
                              FDiv(amount, FromInt(numberOfPayments))))

emptyDetails ==
    [firstMonthPayment |-> Zero, totalInterestPaid |-> Zero,
     amortization |-> <<>>]

\* Without the early return for a principal <= 0.
calculateLoanDetails_unguarded(amount) ==
    IF loanType = "annuity" THEN annuityDetails(amount)
    ELSE serialDetails(amount)

calculateLoanDetails(amount) ==
    IF FLe(amount, Zero) THEN emptyDetails
    ELSE IF loanType = "annuity" THEN annuityDetails(amount)
    ELSE serialDetails(amount)

\* Without Math.max: a surplus of equity becomes a negative loan.
finalLoan_unclamped(ownershipValue, downPayment) ==
    FSub(ownershipValue, downPayment)

\* The down payment is not taken off the ownership value.
finalLoan_noDownPayment(ownershipValue, downPayment) ==
    FMax(Zero, ownershipValue)

\* Pooled equity: each borrower is credited half of the total down payment.
finalLoan_pooled(ownershipValue, downPayment) ==
    FMax(Zero, FSub(ownershipValue,
                    FDiv(FAdd(FromInt(downPayment1), FromInt(downPayment2)),
                         FromInt(2))))

\* Math.max(0, ownershipValue - downPayment)
finalLoan(ownershipValue, downPayment) ==
    FMax(Zero, FSub(ownershipValue, downPayment))

ownershipValue1(currentPropertyValue) ==
    FMul(currentPropertyValue, FDiv(FromInt(ownershipSplit), FromInt(100)))

ownershipValue2(currentPropertyValue) ==
    FMul(currentPropertyValue,
         FDiv(FromInt(100 - ownershipSplit), FromInt(100)))

zeroMonth == [balance |-> Zero, principal |-> Zero, interest |-> Zero,
              totalPayment |-> Zero]

monthData(amortization, i) ==
    IF i <= Len(amortization) THEN amortization[i] ELSE zeroMonth

\* As long as the longer of the two schedules, not as the term.
correctCombinedAmortization_longest(am1, am2) ==
    [i \in 1..(IF Len(am1) > Len(am2) THEN Len(am1) ELSE Len(am2)) |->
        [month |-> i,
         balance |-> FAdd(monthData(am1, i).balance,
                          monthData(am2, i).balance),
         principal |-> FAdd(monthData(am1, i).principal,
                            monthData(am2, i).principal),
         interest |-> FAdd(monthData(am1, i).interest,
                           monthData(am2, i).interest),
         totalPayment |-> FAdd(monthData(am1, i).totalPayment,
                               monthData(am2, i).totalPayment)]]

\* Only the first borrower's schedule is counted.
correctCombinedAmortization_firstOnly(am1, am2) ==
    [i \in 1..(IF numberOfPayments > 0 THEN numberOfPayments ELSE 0) |->
        [month |-> i,
         balance |-> FAdd(monthData(am1, i).balance, Zero),
         principal |-> FAdd(monthData(am1, i).principal, Zero),
         interest |-> FAdd(monthData(am1, i).interest, Zero),
         totalPayment |-> FAdd(monthData(am1, i).totalPayment, Zero)]]

\* FIX 1: one entry per month of the term, the two loans summed.
correctCombinedAmortization(am1, am2) ==
    [i \in 1..(IF numberOfPayments > 0 THEN numberOfPayments ELSE 0) |->
        LET monthData1 == monthData(am1, i)
            monthData2 == monthData(am2, i)
        IN [month |-> i,
            balance |-> FAdd(monthData1.balance, monthData2.balance),
            principal |-> FAdd(monthData1.principal, monthData2.principal),
            interest |-> FAdd(monthData1.interest, monthData2.interest),
            totalPayment |-> FAdd(monthData1.totalPayment,
                                  monthData2.totalPayment)]]

serialFirstPayment(loan) ==
    FAdd(FDiv(loan, FromInt(numberOfPayments)),
         FMul(loan, monthlyInterestRate))

lastPaymentOf(serialPrincipal) ==
    FAdd(serialPrincipal, FMul(serialPrincipal, monthlyInterestRate))

serialLastPayment(loan) ==
    lastPaymentOf(FDiv(loan, FromInt(numberOfPayments)))

zeroLoanDetails ==
    [amount |-> Zero, payment |-> Zero, amortization |-> <<>>,
     annuityPayment |-> Zero, serialFirstPayment |-> Zero,
     serialLastPayment |-> Zero]

makeLoanDetails(loan, details) ==
    [amount |-> loan, payment |-> details.firstMonthPayment,
     amortization |-> details.amortization,
     annuityPayment |-> IF FGt(loan, Zero) THEN annuityPaymentOf(loan)
                        ELSE Zero,
     serialFirstPayment |-> IF FGt(loan, Zero) THEN serialFirstPayment(loan)
                            ELSE Zero,
     serialLastPayment |-> IF FGt(loan, Zero) THEN serialLastPayment(loan)
                           ELSE Zero]

----------------------------------------------------------------------------
(* Loan type comparison (useMemo over loanAmount, interestRate, loanTerm)   *)

\* One month of the comparison's annuity loop: no break, no clamp.
comparisonAnnuityMonth(st, annuityPayment, interestPayment) ==
    [balance |-> FSub(st.balance, FSub(annuityPayment, interestPayment)),
     totalInterest |-> FAdd(st.totalInterest, interestPayment)]

\* for (let i = 1; i <= numberOfPayments; i++) { ... }; st = st has the
\* loop's variables evaluated month by month, as the loop does.
RECURSIVE comparisonAnnuityLoop(_, _, _)
comparisonAnnuityLoop(i, st, annuityPayment) ==
    IF i > numberOfPayments \/ st # st THEN st
    ELSE comparisonAnnuityLoop(i + 1,
             comparisonAnnuityMonth(st, annuityPayment,
                 FMul(st.balance, monthlyInterestRate)),
             annuityPayment)

\* One month of the comparison's serial loop.
comparisonSerialMonth(st, serialPrincipalPayment, interestPayment) ==
    [balance |-> FSub(st.balance, serialPrincipalPayment),
     totalInterest |-> FAdd(st.totalInterest, interestPayment)]

RECURSIVE comparisonSerialLoop(_, _, _)
comparisonSerialLoop(i, st, serialPrincipalPayment) ==
    IF i > numberOfPayments \/ st # st THEN st
    ELSE comparisonSerialLoop(i + 1,
             comparisonSerialMonth(st, serialPrincipalPayment,
                 FMul(st.balance, monthlyInterestRate)),
             serialPrincipalPayment)

comparisonStart == [balance |-> loanAmount, totalInterest |-> Zero]

comparisonAnnuity(annuityPayment, annuityTotalInterest) ==
    [totalInterest |-> annuityTotalInterest,
     totalCost |-> FAdd(loanAmount, annuityTotalInterest),
     firstPayment |-> annuityPayment,
     lastPayment |-> annuityPayment]

comparisonSerial(serialPrincipalPayment, serialTotalInterest) ==
    [totalInterest |-> serialTotalInterest,
     totalCost |-> FAdd(loanAmount, serialTotalInterest),
     firstPayment |-> FAdd(serialPrincipalPayment,
                           FMul(loanAmount, monthlyInterestRate)),
     lastPayment |-> lastPaymentOf(serialPrincipalPayment)]

comparisonOf(annuityPayment, serialPrincipalPayment) ==
    [present |-> TRUE,
     annuity |-> comparisonAnnuity(annuityPayment,
         comparisonAnnuityLoop(1, comparisonStart,
                               annuityPayment).totalInterest),
     serial |-> comparisonSerial(serialPrincipalPayment,
         comparisonSerialLoop(1, comparisonStart,
                              serialPrincipalPayment).totalInterest)]

\* if (loanAmount <= 0) return null
noComparison ==
    [present |-> FALSE,
     annuity |-> comparisonAnnuity(Zero, Zero),
     serial |-> comparisonSerial(Zero, Zero)]

loanTypeComparison ==
    IF FLe(loanAmount, Zero) THEN noComparison
    ELSE comparisonOf(annuityPaymentOf(loanAmount),
                      FDiv(loanAmount, FromInt(numberOfPayments)))

----------------------------------------------------------------------------
(* Shareable link                                                          *)

\* The keys of the params object of updateURL.
ParamKeys ==
    {"cm", "lt", "ir", "term", "dp1", "dp2", "os", "md", "hi", "hoa",
     "maint", "aa", "rr", "ri", "arc", "ptm", "cpt", "dmp", "pv"}

\* const params = { cm: calculationMode, ..., pv: propertyValue }
params ==
    [cm |-> calculationMode, lt |-> loanType, ir |-> interestRate,
     term |-> loanTerm, dp1 |-> downPayment1, dp2 |-> downPayment2,
     os |-> ownershipSplit, md |-> municipalDues, hi |-> homeInsurance,
     hoa |-> hoa, maint |-> maintenance, aa |-> annualAppreciation,
     rr |-> requiredReturn, ri |-> rentalIncome, arc |-> alternativeRentCost,
     ptm |-> propertyTaxMode, cpt |-> customPropertyTaxAmount,
     dmp |-> desiredMonthlyPayment, pv |-> propertyValue]

\* A fragment is the value of each key as a sequence of characters; a key
\* the fragment does not hold has no characters.
noFragment == [key \in ParamKeys |-> <<>>]

\* The decimal digits as characters.
DigitChars == <<"0", "1", "2", "3", "4", "5", "6", "7", "8", "9">>

IsDigit(c) == \E d \in 1..10 : DigitChars[d] = c

DigitValue(c) == (CHOOSE d \in 1..10 : DigitChars[d] = c) - 1

\* The decimal digits of a natural number.
RECURSIVE Digits(_)
Digits(n) ==
    IF n < 10 THEN <<DigitChars[n + 1]>>
    ELSE Append(Digits(n \div 10), DigitChars[(n % 10) + 1])

\* value.toString() of an integer
IntToString(i) == IF i < 0 THEN <<"-">> \o Digits(0 - i) ELSE Digits(i)

\* 2^k
RECURSIVE TwoTo(_)
TwoTo(k) == IF k = 0 THEN 1 ELSE 2 * TwoTo(k - 1)

\* The number of hundredths nearest to the magnitude of a finite number.
Hundredths(a) ==
    IF a.e >= 0 THEN a.m * TwoTo(a.e) * 100
    ELSE (a.m * 200 + TwoTo(0 - a.e)) \div TwoTo(1 - a.e)

\* The decimals of h hundredths, trailing zeros dropped.
Decimals(h) ==
    IF h % 100 = 0 THEN <<>>
    ELSE IF h % 10 = 0 THEN <<".", DigitChars[((h % 100) \div 10) + 1]>>
    ELSE <<".", DigitChars[((h % 100) \div 10) + 1], DigitChars[(h % 10) + 1]>>

HundredthsToString(h) == Digits(h \div 100) \o Decimals(h)

\* value.toString() of a number: the shortest decimal that reads back as
\* the number; the inputs have at most two decimals.
NumberToString(a) ==
    IF IsNaN(a) THEN <<"NaN">>
    ELSE IF IsInf(a)
         THEN (IF a.s < 0 THEN <<"-", "Infinity">> ELSE <<"Infinity">>)
    ELSE IF a.s < 0 /\ a.m # 0
         THEN <<"-">> \o HundredthsToString(Hundredths(a))
    ELSE HundredthsToString(Hundredths(a))

\* The digits of str from position i on: their value, their number and
\* the position after them.
RECURSIVE ReadDigits(_, _, _)
ReadDigits(str, i, st) ==
    IF i > Len(str) \/ st.digits < 0 THEN st
    ELSE IF ~IsDigit(str[i]) THEN st
    ELSE ReadDigits(str, i + 1,
                    [value |-> st.value * 10 + DigitValue(str[i]),
                     digits |-> st.digits + 1, pos |-> i + 1])

noDigits(i) == [value |-> 0, digits |-> 0, pos |-> i]

HasSign(str) == str # <<>> /\ str[1] \in {"-", "+"}

SignOf(str) == IF str # <<>> /\ str[1] = "-" THEN -1 ELSE 1

AfterSign(str) == IF HasSign(str) THEN 2 ELSE 1

\* parseInt(str): an optional sign and the digits up to the first other
\* character; NaN without a digit.
intOf(str, read) ==
    IF read.digits = 0 THEN [nan |-> TRUE, value |-> 0]
    ELSE [nan |-> FALSE, value |-> SignOf(str) * read.value]

parseInt(str) == intOf(str, ReadDigits(str, AfterSign(str), noDigits(AfterSign(str))))

\* 10^k
RECURSIVE TenTo(_)
TenTo(k) == IF k = 0 THEN 1 ELSE 10 * TenTo(k - 1)

\* The number of the digits whole.fraction with a sign.
floatOf(str, whole, fraction) ==
    IF whole.digits + fraction.digits = 0 THEN NaN
    ELSE IF SignOf(str) < 0
         THEN FNeg(Dec(whole.value * TenTo(fraction.digits) + fraction.value,
                       TenTo(fraction.digits)))
    ELSE Dec(whole.value * TenTo(fraction.digits) + fraction.value,
             TenTo(fraction.digits))

fractionOf(str, whole) ==
    IF whole.pos <= Len(str) /\ str[whole.pos] = "."
    THEN ReadDigits(str, whole.pos + 1, noDigits(whole.pos + 1))
    ELSE noDigits(whole.pos)

floatFrom(str, whole) == floatOf(str, whole, fractionOf(str, whole))

\* parseFloat(str): an optional sign, then Infinity or digits with an
\* optional fraction; NaN without a digit.
parseFloat(str) ==
    IF Len(str) >= AfterSign(str) /\ str[AfterSign(str)] = "Infinity"
    THEN Inf(SignOf(str))
    ELSE floatFrom(str, ReadDigits(str, AfterSign(str),
                                   noDigits(AfterSign(str))))

\* urlParams.set(key, value.toString()) unless the value is '' (no input
\* is undefined or null).
wordToString(word) == IF word = "" THEN <<>> ELSE <<word>>

\* encodeParams(params)
encodeParams(p) ==
    [key \in ParamKeys |->
        IF key \in {"cm", "lt", "ptm"} THEN wordToString(p[key])
        ELSE IF key \in {"ir", "aa", "rr"} THEN NumberToString(p[key])
        ELSE IntToString(p[key])]

\* decodeParams(): the keys and values of window.location.hash
decodeParams == urlHash

\* urlParams.x || word
wordOr(str, word) == IF str = <<>> THEN word ELSE str[1]

\* parseInt(urlParams.x) || number
intOr(parsed, number) ==
    IF parsed.nan \/ parsed.value = 0 THEN number ELSE parsed.value

\* parseFloat(urlParams.x) || number
floatOr(parsed, number) ==
    IF IsNaN(parsed) \/ IsZero(parsed) THEN number ELSE parsed

\* The useState initialisers of the inputs, for the decoded fragment.
initialInputs(urlParams) ==
    [cm |-> wordOr(urlParams["cm"], "byPrice"),
     lt |-> wordOr(urlParams["lt"], "annuity"),
     ir |-> floatOr(parseFloat(urlParams["ir"]), Dec(520, 100)),
     term |-> intOr(parseInt(urlParams["term"]), 25),
     dp1 |-> intOr(parseInt(urlParams["dp1"]), 1000000),
     dp2 |-> intOr(parseInt(urlParams["dp2"]), 0),
     os |-> intOr(parseInt(urlParams["os"]), 100),
     md |-> intOr(parseInt(urlParams["md"]), 15000),
     hi |-> intOr(parseInt(urlParams["hi"]), 0),
     hoa |-> intOr(parseInt(urlParams["hoa"]), 0),
     maint |-> intOr(parseInt(urlParams["maint"]), 24000),
     aa |-> floatOr(parseFloat(urlParams["aa"]), FromInt(3)),
     rr |-> floatOr(parseFloat(urlParams["rr"]), FromInt(5)),
     ri |-> intOr(parseInt(urlParams["ri"]), 0),
     arc |-> intOr(parseInt(urlParams["arc"]), 20000),
     ptm |-> wordOr(urlParams["ptm"], "oslo"),
     cpt |-> intOr(parseInt(urlParams["cpt"]), 5000),
     dmp |-> intOr(parseInt(urlParams["dmp"]), 20000),
     pv |-> intOr(parseInt(urlParams["pv"]), 5000000)]

----------------------------------------------------------------------------
(* Actions                                                                 *)

\* The inputs as the URL initialisers and the input handlers leave them:
\* the ownership inputs vary with the default-like loan, or the loan inputs
\* vary with a one- or two-borrower purchase, or the tax and payment inputs
\* vary with a one-year loan of a single owner, or the investment inputs
\* vary with a loan of one or two years. The fragment holds the loan type,
\* which only a link sets.
Init ==
    /\ calculationMode \in ModeValues
    /\ \/ /\ loanType = "annuity"
          /\ interestRate = Dec(520, 100)
          /\ loanTerm = 1
          /\ propertyValue \in PropertyValues
          /\ ownershipSplit \in SplitValues
          /\ downPayment1 \in DownPayment1Values
          /\ downPayment2 \in DownPayment2Values
          /\ propertyTaxMode = "oslo"
          /\ desiredMonthlyPayment = 20000
          /\ maintenance = 24000
          /\ rentalIncome = 0
          /\ annualAppreciation = FromInt(3)
          /\ requiredReturn = FromInt(5)
          /\ alternativeRentCost = 20000
       \/ /\ loanType \in LoanTypeValues
          /\ interestRate \in {Dec(r, 100) : r \in RateValues}
          /\ loanTerm \in TermValues
          /\ propertyValue = 4096000
          /\ ownershipSplit \in {37, 100}
          /\ downPayment1 = 1024000
          /\ downPayment2 = 0
          /\ propertyTaxMode = "oslo"
          /\ desiredMonthlyPayment = 20000
          /\ maintenance = 24000
          /\ rentalIncome = 0
          /\ annualAppreciation = FromInt(3)
          /\ requiredReturn = FromInt(5)
          /\ alternativeRentCost = 20000
       \/ /\ loanType = "annuity"
          /\ interestRate \in {Dec(520, 100), Inf(1)}
          /\ loanTerm = 1
          /\ propertyValue \in TaxedPropertyValues
          /\ ownershipSplit = 100
          /\ downPayment1 = 1024000
          /\ downPayment2 = 0
          /\ propertyTaxMode \in TaxModeValues
          /\ desiredMonthlyPayment \in PaymentValues
          /\ maintenance \in MaintenanceValues
          /\ rentalIncome = 0
          /\ annualAppreciation = FromInt(3)
          /\ requiredReturn = FromInt(5)
          /\ alternativeRentCost = 20000
       \/ /\ loanType = "annuity"
          /\ interestRate = Dec(520, 100)
          /\ loanTerm \in InvestmentTermValues
          /\ propertyValue = 4096000
          /\ ownershipSplit = 100
          /\ downPayment1 = 1024000
          /\ downPayment2 = 0
          /\ propertyTaxMode = "oslo"
          /\ desiredMonthlyPayment = 20000
          /\ maintenance = 24000
          /\ rentalIncome \in RentalValues
          /\ annualAppreciation \in {FromInt(a) : a \in AppreciationValues}
          /\ requiredReturn \in {FromInt(a) : a \in ReturnValues}
          /\ alternativeRentCost \in RentValues
    /\ municipalDues = 15000
    /\ homeInsurance = 0
    /\ hoa = 0
    /\ customPropertyTaxAmount = 5000
    /\ loanAmount = Zero
    /\ finalPropertyValue = Zero
    /\ calculatedMonthlyPayment = Zero
    /\ amortizationData = <<>>
    /\ totalInterest = Zero
    /\ loanDetails1 = zeroLoanDetails
    /\ loanDetails2 = zeroLoanDetails
    /\ propertyTax = Zero
    /\ totalMonthlyCost = Zero
    /\ netMonthlyCost = Zero
    /\ recalcPending = TRUE
    /\ costPending = TRUE
    /\ lastEvent = "mount"
    /\ urlHash = [noFragment EXCEPT !["lt"] = wordToString(loanType)]
    /\ timers = <<>>
    /\ urlPending = TRUE
    /\ renderPasses = 1

\* The dependency list of updateURL, and so of the debounce effect.
updateURLDeps ==
    {"calculationMode", "loanType", "interestRate", "loanTerm",
     "downPayment1", "downPayment2", "ownershipSplit", "municipalDues",
     "homeInsurance", "hoa", "maintenance", "annualAppreciation",
     "requiredReturn", "rentalIncome", "alternativeRentCost",
     "propertyTaxMode", "customPropertyTaxAmount", "desiredMonthlyPayment",
     "propertyValue"}

\* The dependency list of the recalculation effect.
recalculationDeps_withTotalCost ==
    {"calculationMode", "desiredMonthlyPayment", "propertyValue",
     "interestRate", "loanTerm", "downPayment1", "downPayment2",
     "municipalDues", "homeInsurance", "hoa", "maintenance",
     "annualAppreciation", "requiredReturn", "rentalIncome", "loanType",
     "ownershipSplit", "propertyTaxMode", "customPropertyTaxAmount",
     "totalMonthlyCost"}

recalculationDeps ==
    {"calculationMode", "desiredMonthlyPayment", "propertyValue",
     "interestRate", "loanTerm", "downPayment1", "downPayment2",
     "municipalDues", "homeInsurance", "hoa", "maintenance",
     "annualAppreciation", "requiredReturn", "rentalIncome", "loanType",
     "ownershipSplit", "propertyTaxMode", "customPropertyTaxAmount"}

\* The dependency list of the total cost effect.
totalCostDeps ==
    {"calculatedMonthlyPayment", "municipalDues", "homeInsurance", "hoa",
     "maintenance", "rentalIncome", "loanAmount", "amortizationData",
     "propertyTax"}

\* An effect runs after a render in which one of its dependencies differs
\* from the render before.
Triggered(deps, changes) == deps \cap changes # {}

\* The states the recalculation effect has changed: the amortization array
\* and the loan details objects are new references every time, a number
\* counts when its value differs.
recalculationChanges ==
    {"amortizationData", "loanDetails1", "loanDetails2"}
        \cup (IF finalPropertyValue' # finalPropertyValue
              THEN {"finalPropertyValue"} ELSE {})
        \cup (IF loanAmount' # loanAmount THEN {"loanAmount"} ELSE {})
        \cup (IF calculatedMonthlyPayment' # calculatedMonthlyPayment
              THEN {"calculatedMonthlyPayment"} ELSE {})
        \cup (IF totalInterest' # totalInterest
              THEN {"totalInterest"} ELSE {})
        \cup (IF propertyTax' # propertyTax THEN {"propertyTax"} ELSE {})

\* The states the total cost effect has changed.
totalCostChanges ==
    (IF totalMonthlyCost' # totalMonthlyCost
     THEN {"totalMonthlyCost"} ELSE {})
        \cup (IF netMonthlyCost' # netMonthlyCost
              THEN {"netMonthlyCost"} ELSE {})

\* The most timers the model lets be pending.
MaxTimers == 3

\* return () => clearTimeout(timer): the timer the effect started last is
\* the youngest one, when it has not fired.
clearTimeout_forgotten(pending) == pending

clearTimeout(pending) ==
    IF pending = <<>> THEN pending
    ELSE SubSeq(pending, 1, Len(pending) - 1)

\* useEffect(() => { const timer = setTimeout(() => { updateURL(); }, 500);
\*                   return () => clearTimeout(timer); }, [updateURL])
DebounceEffect ==
    /\ urlPending
    /\ Len(timers) < MaxTimers
    /\ timers' = Append(clearTimeout(timers), params)
    /\ urlPending' = FALSE
    /\ UNCHANGED <<inputVars, outputVars, costVars, recalcPending,
                   costPending, lastEvent, urlHash, renderPasses>>

\* (municipalDues / 12) + (homeInsurance / 12) + (propertyTax / 12) +
\* (maintenance / 12) + hoa
monthlyFixedCosts ==
    FAdd(FAdd(FAdd(FAdd(FDiv(FromInt(municipalDues), FromInt(12)),
                        FDiv(FromInt(homeInsurance), FromInt(12))),
                   FDiv(propertyTax, FromInt(12))),
              FDiv(FromInt(maintenance), FromInt(12))),
         FromInt(hoa))

\* const totalCost = calculatedMonthlyPayment + monthlyFixedCosts;
\* setTotalMonthlyCost(totalCost); setNetMonthlyCost(totalCost - rentalIncome)
totalCostWith(totalCost) ==
    [totalMonthlyCost |-> totalCost,
     netMonthlyCost |-> FSub(totalCost, FromInt(rentalIncome))]

totalCostOf == totalCostWith(FAdd(calculatedMonthlyPayment, monthlyFixedCosts))

\* useEffect(() => { ... }, [calculationMode, ..., customPropertyTaxAmount]).
\* At mount the total cost effect runs in the same pass, on the outputs as
\* rendered.
RecalculateEffect ==
    /\ ~urlPending
    /\ recalcPending
    /\ \E totalDownPayment \in
              {FAdd(FromInt(downPayment1), FromInt(downPayment2))} :
       \E currentPropertyValue \in
              {IF calculationMode = "byPayment"
               THEN calculateAffordability(totalDownPayment).maxPropertyPrice
               ELSE FromInt(propertyValue)} :
       \E finalLoan1 \in {finalLoan(ownershipValue1(currentPropertyValue),
                                    FromInt(downPayment1))} :
       \E finalLoan2 \in {finalLoan(ownershipValue2(currentPropertyValue),
                                    FromInt(downPayment2))} :
       \E totalLoanAmount \in {FAdd(finalLoan1, finalLoan2)} :
          /\ finalPropertyValue' = currentPropertyValue
          /\ loanAmount' = totalLoanAmount
          /\ IF FLe(totalLoanAmount, Zero)
             THEN /\ calculatedMonthlyPayment' = Zero
                  /\ loanDetails1' = zeroLoanDetails
                  /\ loanDetails2' = zeroLoanDetails
                  /\ totalInterest' = Zero
                  /\ amortizationData' = <<>>
             ELSE \E details1 \in {calculateLoanDetails(finalLoan1)} :
                  \E details2 \in {calculateLoanDetails(finalLoan2)} :
                  /\ loanDetails1' = makeLoanDetails(finalLoan1, details1)
                  /\ loanDetails2' = makeLoanDetails(finalLoan2, details2)
                  /\ totalInterest' = FAdd(details1.totalInterestPaid,
                                           details2.totalInterestPaid)
                  /\ calculatedMonthlyPayment' =
                         FAdd(details1.firstMonthPayment,
                              details2.firstMonthPayment)
                  /\ amortizationData' =
                         correctCombinedAmortization(details1.amortization,
                                                     details2.amortization)
          /\ propertyTax' = calculatePropertyTax(currentPropertyValue,
                                propertyTaxMode,
                                FromInt(customPropertyTaxAmount))
    /\ IF costPending
       THEN /\ totalMonthlyCost' = totalCostOf.totalMonthlyCost
            /\ netMonthlyCost' = totalCostOf.netMonthlyCost
       ELSE UNCHANGED costVars
    /\ recalcPending' = FALSE
    /\ costPending' = Triggered(totalCostDeps, recalculationChanges)
    /\ renderPasses' = renderPasses + 1
    /\ UNCHANGED <<inputVars, lastEvent, linkVars, urlPending>>

\* useEffect(() => { ... }, [calculatedMonthlyPayment, ..., propertyTax]),
\* run on the outputs the recalculation effect has set.
TotalCostEffect ==
    /\ ~urlPending
    /\ ~recalcPending
    /\ costPending
    /\ totalMonthlyCost' = totalCostOf.totalMonthlyCost
    /\ netMonthlyCost' = totalCostOf.netMonthlyCost
    /\ costPending' = FALSE
    /\ recalcPending' = Triggered(recalculationDeps, totalCostChanges)
    /\ renderPasses' = renderPasses + 1
    /\ UNCHANGED <<inputVars, outputVars, lastEvent, linkVars, urlPending>>

\* onChange of the "Din Egenkapital" slider / number field
SetDownPayment1 ==
    /\ ~recalcPending
    /\ ~costPending
    /\ \E v \in DownPayment1Values :
          /\ v # downPayment1
          /\ downPayment1' = v
    /\ recalcPending' = Triggered(recalculationDeps, {"downPayment1"})
    /\ costPending' = Triggered(totalCostDeps, {"downPayment1"})
    /\ urlPending' = Triggered(updateURLDeps, {"downPayment1"})
    /\ renderPasses' = 1
    /\ lastEvent' = "downPayment1"
    /\ UNCHANGED <<calculationMode, loanType, interestRate, loanTerm,
                   downPayment2, ownershipSplit, municipalDues, homeInsurance,
                   hoa, maintenance, rentalIncome, propertyTaxMode,
                   customPropertyTaxAmount, desiredMonthlyPayment,
                   propertyValue, annualAppreciation, requiredReturn,
                   alternativeRentCost, outputVars, costVars, linkVars>>

\* onChange of the "Medlåntakers Egenkapital" slider / number field
SetDownPayment2 ==
    /\ ~recalcPending
    /\ ~costPending
    /\ \E v \in DownPayment2Values :
          /\ v # downPayment2
          /\ downPayment2' = v
    /\ recalcPending' = Triggered(recalculationDeps, {"downPayment2"})
    /\ costPending' = Triggered(totalCostDeps, {"downPayment2"})
    /\ urlPending' = Triggered(updateURLDeps, {"downPayment2"})
    /\ renderPasses' = 1
    /\ lastEvent' = "downPayment2"
    /\ UNCHANGED <<calculationMode, loanType, interestRate, loanTerm,
                   downPayment1, ownershipSplit, municipalDues, homeInsurance,
                   hoa, maintenance, rentalIncome, propertyTaxMode,
                   customPropertyTaxAmount, desiredMonthlyPayment,
                   propertyValue, annualAppreciation, requiredReturn,
                   alternativeRentCost, outputVars, costVars, linkVars>>

\* The fragments the app is opened with: a one-year loan, from a link
\* written for a down payment of 0 and a required return of 0; a serial
\* loan in "byPayment" mode; a two-year loan at 50 %.
LinkSamples ==
    {[noFragment EXCEPT !["term"] = <<"1">>, !["dp1"] = <<"0">>,
                        !["rr"] = <<"0">>,
                        !["pv"] = <<"4", "0", "9", "6", "0", "0", "0">>],
     [noFragment EXCEPT !["term"] = <<"1">>, !["lt"] = <<"serial">>,
                        !["cm"] = <<"byPayment">>],
     [noFragment EXCEPT !["term"] = <<"2">>, !["ir"] = <<"5", "0">>]}

\* The state after construction from a link.
inputsAre(inputs) ==
    /\ calculationMode = inputs.cm
    /\ loanType = inputs.lt
    /\ interestRate = inputs.ir
    /\ loanTerm = inputs.term
    /\ downPayment1 = inputs.dp1
    /\ downPayment2 = inputs.dp2
    /\ ownershipSplit = inputs.os
    /\ municipalDues = inputs.md
    /\ homeInsurance = inputs.hi
    /\ hoa = inputs.hoa
    /\ maintenance = inputs.maint
    /\ annualAppreciation = inputs.aa
    /\ requiredReturn = inputs.rr
    /\ rentalIncome = inputs.ri
    /\ alternativeRentCost = inputs.arc
    /\ propertyTaxMode = inputs.ptm
    /\ customPropertyTaxAmount = inputs.cpt
    /\ desiredMonthlyPayment = inputs.dmp
    /\ propertyValue = inputs.pv

InitFromLink ==
    /\ urlHash \in LinkSamples
    /\ inputsAre(initialInputs(decodeParams))
    /\ loanAmount = Zero
    /\ finalPropertyValue = Zero
    /\ calculatedMonthlyPayment = Zero
    /\ amortizationData = <<>>
    /\ totalInterest = Zero
    /\ loanDetails1 = zeroLoanDetails
    /\ loanDetails2 = zeroLoanDetails
    /\ propertyTax = Zero
    /\ totalMonthlyCost = Zero
    /\ netMonthlyCost = Zero
    /\ recalcPending = TRUE
    /\ costPending = TRUE
    /\ lastEvent = "mount"
    /\ timers = <<>>
    /\ urlPending = TRUE
    /\ renderPasses = 1

\* The sliders with a number field that the model moves.
RangedFields == {"interestRate", "loanTerm"}

\* min={...} of the InputSlider of a field
fieldMin(field) ==
    IF field = "interestRate" THEN Dec(1, 10)
    ELSE IF field = "loanTerm" THEN FromInt(1)
    ELSE IF field = "ownershipSplit" THEN FromInt(0)
    ELSE IF field = "annualAppreciation" THEN FromInt(-10)
    ELSE FromInt(1)

\* max={...} of the InputSlider of a field
fieldMax(field) ==
    IF field = "interestRate" THEN FromInt(20)
    ELSE IF field = "loanTerm" THEN FromInt(40)
    ELSE IF field = "ownershipSplit" THEN FromInt(100)
    ELSE IF field = "annualAppreciation" THEN FromInt(15)
    ELSE FromInt(15)

\* value={...} of the InputSlider of a field
fieldValue(field) ==
    IF field = "interestRate" THEN interestRate
    ELSE IF field = "loanTerm" THEN FromInt(loanTerm)
    ELSE IF field = "ownershipSplit" THEN FromInt(ownershipSplit)
    ELSE IF field = "annualAppreciation" THEN annualAppreciation
    ELSE requiredReturn

\* The integer a whole number is.
ToInt(a) ==
    IF a.e >= 0 THEN a.s * a.m * TwoTo(a.e)
    ELSE a.s * (a.m \div TwoTo(0 - a.e))

\* Math.min(a, b)
FMin(a, b) ==
    IF IsNaN(a) \/ IsNaN(b) THEN NaN
    ELSE IF FLt(b, a) THEN b ELSE a

\* onChange={e => setX(Number(e.target.value))} of a field, with the
\* render that follows.
SetInput(field, value) ==
    /\ value # fieldValue(field)
    /\ interestRate' = IF field = "interestRate" THEN value ELSE interestRate
    /\ loanTerm' = IF field = "loanTerm" THEN ToInt(value) ELSE loanTerm
    /\ recalcPending' = Triggered(recalculationDeps, {field})
    /\ costPending' = Triggered(totalCostDeps, {field})
    /\ urlPending' = Triggered(updateURLDeps, {field})
    /\ renderPasses' = 1
    /\ lastEvent' = field
    /\ UNCHANGED <<calculationMode, loanType, downPayment1, downPayment2,
                   ownershipSplit, municipalDues, homeInsurance, hoa,
                   maintenance, rentalIncome, propertyTaxMode,
                   customPropertyTaxAmount, desiredMonthlyPayment,
                   propertyValue, annualAppreciation, requiredReturn,
                   alternativeRentCost, outputVars, costVars, linkVars>>

\* What is typed into the number field of a field: nothing, or a number.
TypedTexts(field) ==
    IF field = "interestRate" THEN {<<>>, <<"5", "0">>}
    ELSE {<<>>, <<"2">>}

\* Where the slider of a field is moved to.
SliderValues(field) ==
    IF field = "interestRate" THEN {Dec(520, 100)}
    ELSE {FromInt(2)}

\* if (inputValue === '') onChange(0) else { newValue = Number(inputValue);
\* if (!isNaN(newValue)) onChange(newValue) }
typedNumber(text) == IF text = <<>> THEN Zero ELSE parseFloat(text)

\* No effect is scheduled: the app takes the next event.
Idle == ~urlPending /\ ~recalcPending /\ ~costPending

\* handleNumberChange of the number field of a slider
HandleNumberChange ==
    /\ Idle
    /\ \E field \in RangedFields :
       \E text \in TypedTexts(field) :
          /\ ~IsNaN(typedNumber(text))
          /\ SetInput(field, typedNumber(text))

\* const clampedValue = Math.min(Math.max(newValue, min), max)
clampedValue(newValue, field) ==
    FMin(FMax(newValue, fieldMin(field)), fieldMax(field))

\* handleBlur of the number field of a slider
HandleBlur ==
    /\ Idle
    /\ \E field \in RangedFields :
          /\ ~IsNaN(fieldValue(field))
          /\ SetInput(field, clampedValue(fieldValue(field), field))

\* onChange of the range input of a slider
HandleSliderChange ==
    /\ Idle
    /\ \E field \in RangedFields :
       \E value \in SliderValues(field) :
          SetInput(field, value)

\* setTimeout(() => { updateURL(); }, 500) fires: the oldest timer first.
\* window.location.hash = encodeParams(params)
TimerFires ==
    /\ Idle
    /\ timers # <<>>
    /\ urlHash' = encodeParams(Head(timers))
    /\ timers' = Tail(timers)
    /\ UNCHANGED <<inputVars, outputVars, costVars, recalcPending,
                   costPending, lastEvent, urlPending, renderPasses>>

NextLink ==
    \/ DebounceEffect
    \/ RecalculateEffect
    \/ TotalCostEffect
    \/ HandleNumberChange
    \/ HandleBlur
    \/ HandleSliderChange
    \/ TimerFires

\* The recalculation effect runs: it was scheduled and no longer is. The
\* steps of this kind are the steps of RecalculateEffect (EffectsRun).
RecalculationRuns ==
    /\ ~urlPending
    /\ recalcPending
    /\ recalcPending' = FALSE

\* The total cost effect runs: the steps of TotalCostEffect.
TotalCostRuns ==
    /\ ~urlPending
    /\ ~recalcPending
    /\ costPending
    /\ costPending' = FALSE

\* The app opened from a link: React runs the scheduled effects and the
\* browser fires a timer that is due.
LinkSpec ==
    /\ InitFromLink
    /\ [][NextLink]_vars
    /\ WF_vars(DebounceEffect)
    /\ WF_recalcPending(RecalculationRuns)
    /\ WF_costPending(TotalCostRuns)
    /\ WF_vars(TimerFires)

Next ==
    \/ DebounceEffect
    \/ RecalculateEffect
    \/ TotalCostEffect
    \/ SetDownPayment1
    \/ SetDownPayment2

Spec == Init /\ [][Next]_vars

----------------------------------------------------------------------------
(* Ownership split                                                         *)

\* The recalculation effect has run on the current inputs.
Calculated == ~recalcPending

\* x enlarged by four units of roundoff: the error three rounded operations
\* (a quotient, a product and a sum) can add up to.
WithRoundoff(x) == FMul(x, Fin(1, HalfP + 2, 1 - Precision))

\* C1 as stated: with propertyValue >= 0, a split in [0,100] and down
\* payments >= 0, both loans are >= 0 and loan1 + loan2 <= propertyValue.
C1_LoansWithinPropertyValue ==
    Calculated =>
        /\ FGe(loanDetails1.amount, Zero)
        /\ FGe(loanDetails2.amount, Zero)
        /\ FGe(finalPropertyValue, Zero) =>
               FLe(loanAmount, finalPropertyValue)

\* C1 amended: both loans are >= 0, and for a propertyValue >= 0 loan1 +
\* loan2 exceeds propertyValue by rounding error at most.
C1_LoansWithinPropertyValueRounded ==
    Calculated =>
        /\ FGe(loanDetails1.amount, Zero)
        /\ FGe(loanDetails2.amount, Zero)
        /\ FGe(finalPropertyValue, Zero) =>
               FLe(loanAmount, WithRoundoff(finalPropertyValue))

\* A down payment above the borrower's ownership share has been clamped to
\* a loan of 0 while the other borrower still borrows.
C1_Witness ==
    /\ Calculated
    /\ calculationMode = "byPrice"
    /\ FGt(FromInt(downPayment1), ownershipValue1(finalPropertyValue))
    /\ loanDetails1.amount = Zero
    /\ FGt(loanDetails2.amount, Zero)

\* A borrower with a positive ownership share has put up a down payment.
SharedDownPayment ==
    \/ downPayment1 > 0 /\ ownershipSplit > 0
    \/ downPayment2 > 0 /\ ownershipSplit < 100

\* C2 as stated: with propertyValue > 0 and a total down payment > 0,
\* loan1 + loan2 < propertyValue.
C2_DownPaymentLowersLoan ==
    (/\ Calculated
     /\ FGt(finalPropertyValue, Zero)
     /\ downPayment1 + downPayment2 > 0)
        => FLt(loanAmount, finalPropertyValue)

\* C2 amended: loan1 + loan2 < propertyValue when a borrower who owns a
\* positive share has a positive down payment.
C2_SharedDownPaymentLowersLoan ==
    (/\ Calculated
     /\ FGt(finalPropertyValue, Zero)
     /\ SharedDownPayment)
        => FLt(loanAmount, finalPropertyValue)

\* Both borrowers own a share, one of them has put up a down payment and
\* both still borrow.
C2_Witness ==
    /\ Calculated
    /\ ownershipSplit \notin {0, 100}
    /\ downPayment1 > 0
    /\ downPayment2 = 0
    /\ FGt(loanDetails1.amount, Zero)
    /\ FGt(loanDetails2.amount, Zero)

\* C3: equity is not pooled.  When the recalculation follows a change of one
\* borrower's down payment and leaves the property value as it was, the
\* other borrower's loan stays as it was.
C3_EquityNotPooled ==
    [][(/\ recalcPending
        /\ ~recalcPending'
        /\ finalPropertyValue' = finalPropertyValue)
         => /\ lastEvent = "downPayment2"
                => loanDetails1'.amount = loanDetails1.amount
            /\ lastEvent = "downPayment1"
                => loanDetails2'.amount = loanDetails2.amount]_vars

\* Borrower 1 has a surplus (a down payment above the own share) put up by
\* the last input change, and borrower 2 borrows.
C3_Witness ==
    /\ Calculated
    /\ lastEvent = "downPayment1"
    /\ calculationMode = "byPrice"
    /\ FGt(FromInt(downPayment1), ownershipValue1(finalPropertyValue))
    /\ FGt(loanDetails2.amount, Zero)

----------------------------------------------------------------------------
(* Amortization                                                            *)

\* The two per-borrower loans of the last recalculation.
Loans == {loanDetails1, loanDetails2}

\* A positive rate and a positive term, as the sliders give them.
ValidRateAndTerm ==
    FGt(interestRate, Zero) /\ IsFin(interestRate) /\ loanTerm > 0

\* C4: in every schedule (principal, rate, term > 0) each balance is >= 0
\* and not larger than the one before it (the first: than the principal),
\* there are at most term x 12 entries, and no entry follows one whose
\* balance has reached 0.
C4_BalanceNonIncreasing ==
    (Calculated /\ ValidRateAndTerm) =>
        \A ld \in Loans :
            FGt(ld.amount, Zero) =>
                LET am == ld.amortization IN
                /\ Len(am) <= loanTerm * 12
                /\ \A i \in 1..Len(am) :
                      /\ FGe(am[i].balance, Zero)
                      /\ FLe(am[i].balance,
                             IF i = 1 THEN ld.amount ELSE am[i - 1].balance)
                /\ \A i \in 1..(Len(am) - 1) : FGt(am[i].balance, Zero)

\* A full-length schedule of a positive loan whose last payment overshot
\* the balance, which was recorded as 0.
C4_Witness ==
    /\ Calculated
    /\ ValidRateAndTerm
    /\ \E ld \in Loans :
          /\ FGt(ld.amount, Zero)
          /\ Len(ld.amortization) = loanTerm * 12
          /\ loanTerm = 2
          /\ ld.amortization[Len(ld.amortization)].balance = Zero

RECURSIVE SumPrincipal(_)
SumPrincipal(am) ==
    IF am = <<>> THEN Zero
    ELSE FAdd(SumPrincipal(SubSeq(am, 1, Len(am) - 1)), am[Len(am)].principal)

\* |a - b| <= |b| * 2^(7 - Precision): equal up to 128 units of roundoff.
Close(a, b) ==
    FLe(FAbs(FSub(a, b)), FMul(FAbs(b), Fin(1, HalfP, 8 - 2 * Precision)))

\* C5 as stated: the principal portions of an annuity schedule sum to the
\* principal (within tolerance) and the last balance is exactly 0.
C5_AnnuityConservation ==
    (Calculated /\ ValidRateAndTerm /\ loanType = "annuity") =>
        \A ld \in Loans :
            FGt(ld.amount, Zero) =>
                LET am == ld.amortization IN
                /\ am # <<>>
                /\ am[Len(am)].balance = Zero
                /\ Close(SumPrincipal(am), ld.amount)

\* C6: a principal <= 0 gives the empty schedule, a first payment of 0 and
\* no interest, whatever the rate, the term and the loan type are.
C6_NoPrincipalNoSchedule ==
    /\ \A amount \in {Zero, FromInt(-1), FromInt(-4096000)} :
          LET d == calculateLoanDetails(amount) IN
          /\ d.amortization = <<>>
          /\ d.firstMonthPayment = Zero
          /\ d.totalInterestPaid = Zero
    /\ Calculated =>
          \A ld \in Loans :
              FLe(ld.amount, Zero) =>
                  ld.payment = Zero /\ ld.amortization = <<>>

\* Borrower 2 owns nothing and borrows nothing while borrower 1 borrows, at
\* a rate of 0 and with a term of 0.
C6_Witness ==
    /\ Calculated
    /\ interestRate = Zero
    /\ loanTerm = 0
    /\ FGt(loanDetails1.amount, Zero)
    /\ loanDetails2.amount = Zero
    /\ loanDetails2.amortization = <<>>

\* C7 as stated: at a rate of 0 the annuity payment is principal /
\* numberOfPayments, a finite number.
C7_ZeroRatePayment ==
    (/\ Calculated
     /\ interestRate = Zero
     /\ loanTerm > 0
     /\ loanType = "annuity") =>
        \A ld \in Loans :
            FGt(ld.amount, Zero) =>
                /\ IsFin(ld.payment)
                /\ ld.payment = FDiv(ld.amount, FromInt(loanTerm * 12))

\* C8 as stated: a term <= 0 with a positive loan (price given) gives an
\* empty schedule, a payment of 0 and no interest.
C8_NoTermNoPayment ==
    (/\ Calculated
     /\ calculationMode = "byPrice"
     /\ loanTerm <= 0
     /\ FGt(loanAmount, Zero)) =>
        /\ amortizationData = <<>>
        /\ calculatedMonthlyPayment = Zero
        /\ totalInterest = Zero

\* C9 as stated: a loan type other than annuity and serial is rejected, so
\* no schedule and no payment is ever calculated with it.
C9_UnknownLoanTypeRejected ==
    (Calculated /\ loanType \notin {"annuity", "serial"}) =>
        /\ loanDetails1.amortization = <<>>
        /\ loanDetails2.amortization = <<>>
        /\ amortizationData = <<>>
        /\ calculatedMonthlyPayment = Zero

\* C10: a serial schedule repays principal / numberOfPayments in every
\* entry, its total payment falls strictly from month to month (rate > 0),
\* the first is the largest and the last the smallest, and the reported
\* first payment is the first entry's total payment.
C10_SerialPayments ==
    (Calculated /\ ValidRateAndTerm /\ loanType = "serial") =>
        \A ld \in Loans :
            FGt(ld.amount, Zero) =>
                LET am == ld.amortization IN
                /\ am # <<>>
                /\ \A i \in 1..Len(am) :
                      /\ am[i].principal =
                             FDiv(ld.amount, FromInt(loanTerm * 12))
                      /\ FLe(am[i].totalPayment, am[1].totalPayment)
                      /\ FGe(am[i].totalPayment, am[Len(am)].totalPayment)
                /\ \A i \in 1..(Len(am) - 1) :
                      FLt(am[i + 1].totalPayment, am[i].totalPayment)
                /\ ld.payment = am[1].totalPayment

\* A serial loan over two years has been amortized in full.
C10_Witness ==
    /\ Calculated
    /\ ValidRateAndTerm
    /\ loanType = "serial"
    /\ loanTerm = 2
    /\ FGt(loanDetails1.amount, Zero)
    /\ Len(loanDetails1.amortization) = 24

----------------------------------------------------------------------------
(* Loan type comparison                                                    *)

\* C11 as stated: whenever the comparison is shown for a term of at least a
\* year, the serial loan's total interest is at most the annuity loan's
\* total interest, and the two are equal only at a rate of 0.
C11_SerialInterestAtMostAnnuity ==
    (loanTypeComparison.present /\ loanTerm > 0) =>
        /\ FLe(loanTypeComparison.serial.totalInterest,
               loanTypeComparison.annuity.totalInterest)
        /\ FEq(loanTypeComparison.serial.totalInterest,
               loanTypeComparison.annuity.totalInterest)
               => interestRate = Zero

----------------------------------------------------------------------------
(* Combined schedule                                                       *)

\* The combined schedule is built: the total loan is not <= 0.
CombinedBuilt == Calculated /\ ~FLe(loanAmount, Zero)

\* A schedule cut off after its first k entries, or whole when it is shorter.
Cut(am, k) == IF k < Len(am) THEN SubSeq(am, 1, k) ELSE am

\* The lengths at which a schedule is cut: empty, one entry, one entry
\* short of the term, and whole.
CutLengths == {0, 1, numberOfPayments - 1, numberOfPayments}

\* C12: the combined schedule has exactly loanTerm x 12 entries (loanTerm
\* >= 0), for the two borrowers' schedules as calculated and for the same
\* schedules cut short or emptied.
C12_CombinedLength ==
    (CombinedBuilt /\ loanTerm >= 0) =>
        /\ Len(amortizationData) = loanTerm * 12
        /\ \A k1 \in CutLengths, k2 \in CutLengths :
              Len(correctCombinedAmortization(
                      Cut(loanDetails1.amortization, k1),
                      Cut(loanDetails2.amortization, k2))) = loanTerm * 12

\* Borrower 1 has a schedule of the whole term, borrower 2 has none, and the
\* combined schedule is built.
C12_Witness ==
    /\ CombinedBuilt
    /\ loanTerm = 2
    /\ Len(loanDetails1.amortization) = 24
    /\ loanDetails2.amortization = <<>>
    /\ Len(amortizationData) = 24

\* What a schedule contributes to month i: its entry, or 0 in every field
\* when it has no entry i.
Contribution(am, i) ==
    IF i \in DOMAIN am
    THEN <<am[i].principal, am[i].interest, am[i].balance, am[i].totalPayment>>
    ELSE <<Zero, Zero, Zero, Zero>>

\* Entry i of the schedule combined numbers month i and sums the
\* contributions of am1 and am2 field by field.
SumsMonth(combined, am1, am2, i) ==
    /\ combined[i].month = i
    /\ combined[i].principal =
           FAdd(Contribution(am1, i)[1], Contribution(am2, i)[1])
    /\ combined[i].interest =
           FAdd(Contribution(am1, i)[2], Contribution(am2, i)[2])
    /\ combined[i].balance =
           FAdd(Contribution(am1, i)[3], Contribution(am2, i)[3])
    /\ combined[i].totalPayment =
           FAdd(Contribution(am1, i)[4], Contribution(am2, i)[4])

\* C13: every entry of the combined schedule numbers its month and is the
\* field-by-field sum of the two borrowers' entries of that month, a missing
\* entry counting as 0; also when borrower 1's schedule is one entry short
\* of the term and borrower 2's has a single entry.
C13_CombinedIsSum ==
    CombinedBuilt =>
        /\ \A i \in DOMAIN amortizationData :
              SumsMonth(amortizationData, loanDetails1.amortization,
                        loanDetails2.amortization, i)
        /\ \A i \in 1..(loanTerm * 12) :
              SumsMonth(correctCombinedAmortization(
                            Cut(loanDetails1.amortization,
                                numberOfPayments - 1),
                            Cut(loanDetails2.amortization, 1)),
                        Cut(loanDetails1.amortization, numberOfPayments - 1),
                        Cut(loanDetails2.amortization, 1), i)

\* Both borrowers repay a loan over a year and the combined schedule shows
\* more principal in its first month than either borrower repays.
C13_Witness ==
    /\ CombinedBuilt
    /\ ValidRateAndTerm
    /\ Len(loanDetails1.amortization) = 12
    /\ Len(loanDetails2.amortization) = 12
    /\ Len(amortizationData) = 12
    /\ FGt(amortizationData[1].principal,
           loanDetails1.amortization[1].principal)
    /\ FGt(amortizationData[1].principal,
           loanDetails2.amortization[1].principal)

----------------------------------------------------------------------------
(* Property tax                                                            *)

\* Property values the tax is calculated for besides the state's own.
TaxSamples ==
    {-4096000, -1, 0, 1, 4096000, 5000000, 6714000, 6715000, 8192000,
     10000000, 16384000}

\* max(0, pv * 0.7 - 4700000) * 0.00235
OsloTax(pv) ==
    FMul(FMax(Zero, FSub(FMul(pv, Dec(7, 10)), FromInt(4700000))),
         Dec(235, 100000))

\* The tax the state shows is the tax of the property value it shows.
TaxShown(mode) == Calculated /\ propertyTaxMode = mode

\* C19: in Oslo mode the tax is max(0, pv * 0.7 - 4700000) * 0.00235 for a
\* property value > 0 and 0 for a property value <= 0, it is never
\* negative, 5 000 000 gives 0 and 10 000 000 gives 5405 (up to rounding).
C19_OsloTax ==
    /\ \A v \in TaxSamples :
          /\ v > 0 => calculatePropertyTax(FromInt(v), "oslo", Zero)
                          = OsloTax(FromInt(v))
          /\ v <= 0 => calculatePropertyTax(FromInt(v), "oslo", Zero) = Zero
          /\ FGe(calculatePropertyTax(FromInt(v), "oslo", Zero), Zero)
    /\ calculatePropertyTax(FromInt(5000000), "oslo", Zero) = Zero
    /\ Close(calculatePropertyTax(FromInt(10000000), "oslo", Zero),
             FromInt(5405))
    /\ TaxShown("oslo") =>
          /\ FGe(propertyTax, Zero)
          /\ FGt(finalPropertyValue, Zero) =>
                 propertyTax = OsloTax(finalPropertyValue)
          /\ FLe(finalPropertyValue, Zero) => propertyTax = Zero

\* In Oslo mode a property value above the deduction is taxed.
C19_Witness ==
    /\ TaxShown("oslo")
    /\ FGt(FMul(finalPropertyValue, Dec(7, 10)), FromInt(4700000))
    /\ FGt(propertyTax, Zero)

\* C20 as stated: in Custom mode the tax is customAmount for every property
\* value.
C20_CustomTaxAlways ==
    /\ \A v \in TaxSamples :
          calculatePropertyTax(FromInt(v), "custom",
                               FromInt(customPropertyTaxAmount))
              = FromInt(customPropertyTaxAmount)
    /\ TaxShown("custom") => propertyTax = FromInt(customPropertyTaxAmount)

\* C20 amended: in Custom mode the tax is customAmount for every property
\* value > 0, whatever that value is, and 0 for every property value <= 0.
C20_CustomTaxOfPositiveValue ==
    /\ \A v \in TaxSamples :
          calculatePropertyTax(FromInt(v), "custom",
                               FromInt(customPropertyTaxAmount))
              = IF v > 0 THEN FromInt(customPropertyTaxAmount) ELSE Zero
    /\ TaxShown("custom") =>
          /\ FGt(finalPropertyValue, Zero) =>
                 propertyTax = FromInt(customPropertyTaxAmount)
          /\ FLe(finalPropertyValue, Zero) => propertyTax = Zero

\* In Custom mode a property value above the Oslo deduction is taxed with
\* the custom amount.
C20_Witness ==
    /\ TaxShown("custom")
    /\ FGt(FMul(finalPropertyValue, Dec(7, 10)), FromInt(4700000))
    /\ propertyTax = FromInt(customPropertyTaxAmount)
    /\ propertyTax # OsloTax(finalPropertyValue)

----------------------------------------------------------------------------
(* Affordability solver                                                    *)

\* downPayment1 + downPayment2, the solver's argument.
TotalDownPaymentNow == FAdd(FromInt(downPayment1), FromInt(downPayment2))

\* The effect has run the solver on the current inputs.
Solved == Calculated /\ calculationMode = "byPayment"

\* Some iteration of the solve res found pAndI <= 0: iteration k calculates
\* pAndI at the k-th estimate.
PAndIExhausted(res) ==
    \E k \in 1..res.iterations : FLe(pAndIOf(res.estimates[k]), Zero)

\* The solve res returns no loan and the down payment as the price.
ReturnsFloor(res, totalDownPayment) ==
    /\ res.maxLoan = Zero
    /\ res.maxPropertyPrice = totalDownPayment

\* C16: whenever pAndI <= 0 in some iteration, the solver (and its first
\* variant, in its single pass) returns maxLoan = 0 and maxPropertyPrice =
\* totalDownPayment, whatever loan an earlier iteration calculated; the
\* effect then shows totalDownPayment as the property value.
C16_AffordabilityFloor ==
    /\ PAndIExhausted(calculateAffordability(TotalDownPaymentNow)) =>
          ReturnsFloor(calculateAffordability(TotalDownPaymentNow),
                       TotalDownPaymentNow)
    /\ PAndIExhausted(calculateAffordabilityFirst(TotalDownPaymentNow)) =>
          ReturnsFloor(calculateAffordabilityFirst(TotalDownPaymentNow),
                       TotalDownPaymentNow)
    /\ (Solved /\ PAndIExhausted(calculateAffordability(TotalDownPaymentNow)))
          => finalPropertyValue = TotalDownPaymentNow

\* The second iteration finds pAndI <= 0 after the first has calculated a
\* positive loan.
FloorAfterLoan(res, totalDownPayment) ==
    /\ res.iterations = 2
    /\ FLe(pAndIOf(res.estimates[2]), Zero)
    /\ FGt(res.estimates[2], totalDownPayment)

C16_Witness ==
    /\ Solved
    /\ FloorAfterLoan(calculateAffordability(TotalDownPaymentNow),
                      TotalDownPaymentNow)
    /\ finalPropertyValue = TotalDownPaymentNow

\* desiredMonthlyPayment, interestRate or loanTerm is <= 0.
NonPositiveInput ==
    desiredMonthlyPayment <= 0 \/ FLe(interestRate, Zero) \/ loanTerm <= 0

\* An input is not a finite number: of the three only interestRate, read
\* with parseFloat, can be (desiredMonthlyPayment and loanTerm are read with
\* parseInt).
NonFiniteInput == ~IsFin(interestRate)

\* The solve res ran no iteration and returns no loan.
ShortCircuits(res, totalDownPayment) ==
    /\ res.iterations = 0
    /\ ReturnsFloor(res, totalDownPayment)

C17_WitnessNonPositive ==
    /\ Solved
    /\ NonPositiveInput
    /\ desiredMonthlyPayment > 0
    /\ finalPropertyValue = TotalDownPaymentNow

\* |a - b| < 1000
Within1000(a, b) == FLt(FAbs(FSub(a, b)), FromInt(1000))

\* The estimate an iteration makes from the estimate est: the loan that
\* pAndI at est repays, plus the down payment.
NextEstimate(est, totalDownPayment) ==
    FAdd(maxLoanOf(pAndIOf(est), monthlyInterestRate, numberOfPayments,
                   growthFactor),
         totalDownPayment)

\* The estimates of the solve res are the solver's: the first is
\* desiredMonthlyPayment * 200, each later one is made from the one before.
EstimatesChained(res, totalDownPayment) ==
    /\ res.estimates[1] = FMul(FromInt(desiredMonthlyPayment), FromInt(200))
    /\ \A k \in 1..(Len(res.estimates) - 1) :
          res.estimates[k + 1] = NextEstimate(res.estimates[k],
                                              totalDownPayment)

\* No iteration of the solve res follows an iteration whose estimate moved
\* by less than 1000.
NoIterationAfterStable(res) ==
    \A k \in 1..(res.iterations - 1) :
        ~Within1000(res.estimates[k + 1], res.estimates[k])

\* The solve res stopped before iteration 10 only on an iteration whose
\* estimate moved by less than 1000 or whose pAndI was <= 0.
StopsOnlyWhenStable(res) ==
    res.iterations < 10 =>
        \/ FLe(pAndIOf(res.estimates[res.iterations]), Zero)
        \/ /\ Len(res.estimates) = res.iterations + 1
           /\ Within1000(res.estimates[res.iterations + 1],
                         res.estimates[res.iterations])

\* C15: the solver starts from desiredMonthlyPayment * 200, stops at the
\* first iteration whose new estimate maxLoan + totalDownPayment is within
\* 1000 of the previous one, runs no iteration after such an iteration, and
\* stops before iteration 10 on no other iteration, unless pAndI <= 0.
C15_StopsAtFirstStableEstimate ==
    calculateAffordability(TotalDownPaymentNow).iterations > 0 =>
        /\ EstimatesChained(calculateAffordability(TotalDownPaymentNow),
                            TotalDownPaymentNow)
        /\ NoIterationAfterStable(
               calculateAffordability(TotalDownPaymentNow))
        /\ StopsOnlyWhenStable(calculateAffordability(TotalDownPaymentNow))
        /\ calculateAffordability(TotalDownPaymentNow).iterations <= 10

\* The solve res made estimates that moved by 1000 or more and stopped, at
\* iteration 3 or later and before iteration 10, on one that did not.
StoppedOnStable(res) ==
    /\ res.iterations >= 3
    /\ res.iterations < 10
    /\ Len(res.estimates) = res.iterations + 1
    /\ Within1000(res.estimates[res.iterations + 1],
                  res.estimates[res.iterations])
    /\ FGt(res.maxLoan, Zero)

C15_Witness ==
    /\ Solved
    /\ StoppedOnStable(calculateAffordability(TotalDownPaymentNow))
    /\ finalPropertyValue =
          calculateAffordability(TotalDownPaymentNow).maxPropertyPrice

\* A loan term in years beyond the slider's 40, typed into the number field:
\* at the rate of 0.1 % the estimates then move too slowly to come within
\* 1000 of each other in 10 iterations.
LongTerm == 1000

\* The solver on the current inputs with the rate 0.1 % and the long term.
LongTermSolve ==
    calculateAffordabilityFor(Dec(10, 100), LongTerm, TotalDownPaymentNow)

\* The solve res ends within 10 iterations with a loan >= 0, which is the
\* loan of its last iteration unless that is negative or NaN, and with the
\* price maxLoan + totalDownPayment.
NormalResult(res, totalDownPayment) ==
    /\ res.iterations <= 10
    /\ Len(res.estimates) <= 11
    /\ FGe(res.maxLoan, Zero)
    /\ res.maxLoan = (IF FGt(res.lastLoan, Zero) THEN res.lastLoan ELSE Zero)
    /\ res.maxPropertyPrice = FAdd(res.maxLoan, totalDownPayment)

\* The solve res ran 10 iterations and its last estimate still moved by
\* 1000 or more (or is NaN).
Unconverged(res) ==
    /\ res.iterations = 10
    /\ Len(res.estimates) = 11
    /\ ~Within1000(res.estimates[11], res.estimates[10])

\* When the 10th iteration of the solve res has not converged and its loan
\* is > 0, the price returned is the estimate of that iteration.
ReturnsLastEstimate(res) ==
    (Unconverged(res) /\ FGt(res.lastLoan, Zero)) =>
        res.maxPropertyPrice = res.estimates[11]

\* The solve res has not converged after the 10th iteration and returns
\* that iteration's loan, which is > 0.
UnconvergedWithLoan(res) ==
    /\ Unconverged(res)
    /\ FGt(res.maxLoan, Zero)
    /\ res.maxLoan = res.lastLoan
    /\ res.maxPropertyPrice = res.estimates[11]

\* C14: the solver, in the App and in src/unnamed/part_000, ends within 10
\* iterations on every input; when the 10th iteration has not converged,
\* the loan of that iteration is returned as the result, with maxLoan >= 0
\* and maxPropertyPrice = maxLoan + totalDownPayment, and the effect shows
\* that price.
C14_AtMostTenIterations ==
    /\ NormalResult(calculateAffordability(TotalDownPaymentNow),
                    TotalDownPaymentNow)
    /\ NormalResult(calculateAffordabilityEarlier(TotalDownPaymentNow),
                    TotalDownPaymentNow)
    /\ NormalResult(LongTermSolve, TotalDownPaymentNow)
    /\ ReturnsLastEstimate(LongTermSolve)
    /\ Solved =>
          finalPropertyValue =
              calculateAffordability(TotalDownPaymentNow).maxPropertyPrice

\* With a serial loan the long-term solve has not converged after the 10th
\* iteration and returns that iteration's positive loan.
C14_Witness ==
    /\ Calculated
    /\ UnconvergedWithLoan(LongTermSolve)

\* The solver of src/unnamed/part_000 at an infinite rate: 10 iterations on
\* NaN, and no loan returned.
C14_WitnessNaN ==
    /\ Calculated
    /\ Unconverged(calculateAffordabilityEarlier(TotalDownPaymentNow))
    /\ calculateAffordabilityEarlier(TotalDownPaymentNow).maxLoan = Zero

----------------------------------------------------------------------------
(* Affordability round trip                                                *)

\* Both effects have run on the current inputs, in "byPayment" mode.
SolvedAndCosted == Solved /\ ~costPending

\* The solver ran its loop and returned a loan > 0.
FoundLoan ==
    /\ ~NonPositiveInput
    /\ ~NonFiniteInput
    /\ FGt(calculateAffordability(TotalDownPaymentNow).maxLoan, Zero)

\* The net monthly cost shown is within 1000 of the desired payment.
PaymentReproduced ==
    FLe(FAbs(FSub(netMonthlyCost, FromInt(desiredMonthlyPayment))),
        FromInt(1000))

\* C18 as stated: the price the solver returns for the desired monthly
\* payment M, run through the ownership split, the amortization, the
\* monthly fixed costs and the rental income, gives a monthly payment
\* within 1000 of M (taken where the solver found a loan > 0).
C18_RoundTrip ==
    (SolvedAndCosted /\ FoundLoan) => PaymentReproduced

\* The solver's loan is the loan of the single borrower and nothing is
\* spent on maintenance, the cost the solver's otherCosts leaves out.
SolverCoversCosts ==
    /\ maintenance = 0
    /\ ownershipSplit = 100
    /\ downPayment2 = 0

\* Where the solver covers all costs the payment is reproduced.
RoundTripOfCoveredCosts ==
    (SolvedAndCosted /\ FoundLoan /\ SolverCoversCosts) => PaymentReproduced

\* The round trip with covered costs happens.
RoundTripOfCoveredCostsHappens ==
    SolvedAndCosted /\ FoundLoan /\ SolverCoversCosts /\ PaymentReproduced

\* With maintenance and a single borrower the net monthly cost exceeds the
\* desired payment by the monthly maintenance, more than 1000.
MaintenanceOnTop ==
    (SolvedAndCosted /\ FoundLoan /\ maintenance = 24000
        /\ ownershipSplit = 100 /\ downPayment2 = 0) =>
        FGt(FSub(netMonthlyCost, FromInt(desiredMonthlyPayment)),
            FromInt(1000))

----------------------------------------------------------------------------
(* Investment metrics                                                      *)

\* const totalDownPayment = downPayment1 + downPayment2
totalDownPayment == FAdd(FromInt(downPayment1), FromInt(downPayment2))

\* amortizationData.length > 0 ? amortizationData.length / 12 : loanTerm.
\* Every schedule the recalculation effect builds has whole years
\* (ScheduleInWholeYears).
yearsToPayoff ==
    IF Len(amortizationData) > 0 THEN Len(amortizationData) \div 12
    ELSE loanTerm

\* finalPropertyValue * Math.pow(1 + (annualAppreciation / 100), yearsToPayoff)
futurePropertyValue ==
    FMul(finalPropertyValue,
         FPow(FAdd(One, FDiv(annualAppreciation, FromInt(100))),
              yearsToPayoff))

\* The object returned when there is no schedule.
noMetrics ==
    [netPresentValue |-> Zero, returnOnEquity |-> Zero,
     totalPropertyReturn |-> Zero, totalAlternativeReturn |-> Zero,
     investmentAdvantage |-> Zero, presentValueOfPropertyInvestment |-> Zero,
     presentValueOfFutureSale |-> Zero, presentValueOfRentalIncome |-> Zero,
     presentValueOfCosts |-> Zero, remainingDebt |-> Zero,
     netWorthWithProperty |-> Zero, realPropertyGain |-> Zero,
     pureAlternativeReturn |-> Zero, pureInvestmentAdvantage |-> Zero,
     totalPaidIn |-> Zero, classicRentVsBuyAdvantage |-> Zero,
     totalRentVsBuyWealth |-> Zero]

\* municipalDues + homeInsurance + propertyTax + maintenance + (hoa * 12)
annualCosts ==
    FAdd(FAdd(FAdd(FAdd(FromInt(municipalDues), FromInt(homeInsurance)),
                   propertyTax),
              FromInt(maintenance)),
         FMul(FromInt(hoa), FromInt(12)))

\* totalDownPayment + interest + (loanAmount - remainingDebt) +
\* (annualCosts * yearsToPayoff) - (rentalIncome * 12 * yearsToPayoff)
totalPaidInWith(interest, remainingDebt, years) ==
    FSub(FAdd(FAdd(FAdd(totalDownPayment, interest),
                   FSub(loanAmount, remainingDebt)),
              FMul(annualCosts, years)),
         FMul(FMul(FromInt(rentalIncome), FromInt(12)), years))

\* totalDownPayment * Math.pow(1 + (requiredReturn / 100), yearsToPayoff)
investedEquity ==
    FMul(totalDownPayment,
         FPow(FAdd(One, FDiv(requiredReturn, FromInt(100))), yearsToPayoff))

\* calculatedMonthlyPayment + (municipalDues/12) + (homeInsurance/12) +
\* (propertyTax/12) + (maintenance/12) + hoa - rentalIncome
monthlyTotalCost ==
    FSub(FAdd(FAdd(FAdd(FAdd(FAdd(calculatedMonthlyPayment,
                                  FDiv(FromInt(municipalDues), FromInt(12))),
                             FDiv(FromInt(homeInsurance), FromInt(12))),
                        FDiv(propertyTax, FromInt(12))),
                   FDiv(FromInt(maintenance), FromInt(12))),
              FromInt(hoa)),
         FromInt(rentalIncome))

\* const r = requiredReturn / 100 / 12
monthlyReturn == FDiv(FDiv(requiredReturn, FromInt(100)), FromInt(12))

\* const n = yearsToPayoff * 12
monthsToPayoff == yearsToPayoff * 12

\* r > 0 ? monthlyTotalCost * ((Math.pow(1 + r, n) - 1) / r)
\*       : monthlyTotalCost * n
futureValueOfMonthlySavings_alwaysCompound(savings, r, n) ==
    FMul(savings, FDiv(FSub(FPow(FAdd(One, r), n), One), r))

futureValueOfMonthlySavings(savings, r, n) ==
    IF FGt(r, Zero)
    THEN FMul(savings, FDiv(FSub(FPow(FAdd(One, r), n), One), r))
    ELSE FMul(savings, FromInt(n))

\* r > 0 ? monthlySavingsIfRenting * ((Math.pow(1 + r, n) - 1) / r)
\*       : monthlySavingsIfRenting * n
futureValueOfSavings(savings, r, n) ==
    IF FGt(r, Zero)
    THEN FMul(savings, FDiv(FSub(FPow(FAdd(One, r), n), One), r))
    ELSE FMul(savings, FromInt(n))

\* const monthlySavingsIfRenting = totalMonthlyCost - alternativeRentCost
monthlySavingsIfRenting(rent) == FSub(totalMonthlyCost, rent)

\* let totalRentVsBuyWealth = totalDownPayment * Math.pow(...);
\* if (monthlySavingsIfRenting > 0) { totalRentVsBuyWealth += ... }
totalRentVsBuyWealthOf(savings) ==
    IF FGt(savings, Zero)
    THEN FAdd(investedEquity,
              futureValueOfSavings(savings, monthlyReturn, monthsToPayoff))
    ELSE investedEquity

totalRentVsBuyWealthAt(rent) ==
    totalRentVsBuyWealthOf(monthlySavingsIfRenting(rent))

\* The object returned for a schedule: the wealth comparisons of lines
\* 875 to 931 and 950 to 965 (the present values of lines 855 to 873 and
\* 933 to 948 take Math.pow of a fraction and a sum over the years).
metricsFrom(remainingDebt, netWorthWithProperty, totalPaidIn, comparison) ==
    [remainingDebt |-> remainingDebt,
     netWorthWithProperty |-> netWorthWithProperty,
     totalPaidIn |-> totalPaidIn,
     realPropertyGain |-> FSub(netWorthWithProperty, totalPaidIn),
     totalPaidInAnnuity |->
         IF comparison.present
         THEN totalPaidInWith(comparison.annuity.totalInterest,
                              remainingDebt, FromInt(yearsToPayoff))
         ELSE totalPaidIn,
     totalPaidInSerial |->
         IF comparison.present
         THEN totalPaidInWith(comparison.serial.totalInterest,
                              remainingDebt, FromInt(yearsToPayoff))
         ELSE totalPaidIn,
     pureAlternativeReturn |-> investedEquity,
     pureInvestmentAdvantage |->
         FSub(FSub(netWorthWithProperty, totalPaidIn),
              FSub(investedEquity, totalDownPayment)),
     totalPropertyReturn |-> netWorthWithProperty,
     totalAlternativeReturn |->
         FAdd(investedEquity,
              futureValueOfMonthlySavings(monthlyTotalCost, monthlyReturn,
                                          monthsToPayoff)),
     investmentAdvantage |->
         FSub(netWorthWithProperty,
              FAdd(investedEquity,
                   futureValueOfMonthlySavings(monthlyTotalCost,
                                               monthlyReturn,
                                               monthsToPayoff))),
     realPropertyGainAnnuity |->
         IF comparison.present
         THEN FSub(netWorthWithProperty,
                   totalPaidInWith(comparison.annuity.totalInterest,
                                   remainingDebt, FromInt(yearsToPayoff)))
         ELSE FSub(netWorthWithProperty, totalPaidIn),
     realPropertyGainSerial |->
         IF comparison.present
         THEN FSub(netWorthWithProperty,
                   totalPaidInWith(comparison.serial.totalInterest,
                                   remainingDebt, FromInt(yearsToPayoff)))
         ELSE FSub(netWorthWithProperty, totalPaidIn),
     totalRentVsBuyWealth |->
         totalRentVsBuyWealthAt(FromInt(alternativeRentCost)),
     classicRentVsBuyAdvantage |->
         FSub(netWorthWithProperty,
              totalRentVsBuyWealthAt(FromInt(alternativeRentCost)))]

metricsOfDebt(remainingDebt) ==
    metricsFrom(remainingDebt, FSub(futurePropertyValue, remainingDebt),
                totalPaidInWith(totalInterest, remainingDebt,
                                FromInt(yearsToPayoff)),
                loanTypeComparison)

\* calculateAdvancedMetrics = useMemo(() => { ... }, [...])
calculateAdvancedMetrics_firstEntry ==
    IF yearsToPayoff <= 0 \/ Len(amortizationData) = 0 THEN noMetrics
    ELSE metricsOfDebt(amortizationData[1].balance)

calculateAdvancedMetrics ==
    IF yearsToPayoff <= 0 \/ Len(amortizationData) = 0 THEN noMetrics
    ELSE metricsOfDebt(amortizationData[Len(amortizationData)].balance)

\* Every schedule built has 12 entries for each year of the term.
ScheduleInWholeYears ==
    Calculated => Len(amortizationData) \in {0, loanTerm * 12}

\* The recalculation effect has built a combined schedule.
ScheduleExists == Calculated /\ Len(amortizationData) > 0

\* (annual recurring costs - annual rental income) x years
NetRecurringCosts ==
    FMul(FSub(annualCosts, FMul(FromInt(rentalIncome), FromInt(12))),
         FromInt(Len(amortizationData) \div 12))

\* |a - b| <= |b| * 2^(2 - Precision): equal up to the roundoff of a sum
\* taken in another order.
SameSum(a, b) ==
    \/ a = b
    \/ FLe(FAbs(FSub(a, b)), FMul(FAbs(b), Fin(1, HalfP, 3 - 2 * Precision)))

\* The four relations of the wealth metrics, for the metrics m.
MetricsRelations(m) ==
    /\ m.remainingDebt = amortizationData[Len(amortizationData)].balance
    /\ m.netWorthWithProperty = FSub(futurePropertyValue, m.remainingDebt)
    /\ SameSum(m.totalPaidIn,
               FAdd(FAdd(FAdd(totalDownPayment, totalInterest),
                         FSub(loanAmount, m.remainingDebt)),
                    NetRecurringCosts))
    /\ m.realPropertyGain = FSub(m.netWorthWithProperty, m.totalPaidIn)

\* Every metric of m is 0.
AllZero(m) == \A field \in DOMAIN m : m[field] = Zero

\* C21: whenever a combined schedule exists, remainingDebt is the balance
\* of its final entry, netWorthWithProperty = futurePropertyValue -
\* remainingDebt, totalPaidIn = totalDownPayment + totalInterest +
\* (loanAmount - remainingDebt) + (annual recurring costs - annual rental
\* income) x years and realPropertyGain = netWorthWithProperty -
\* totalPaidIn; when the schedule is empty every metric is 0.
C21_WealthMetrics ==
    /\ ScheduleExists => MetricsRelations(calculateAdvancedMetrics)
    /\ (Calculated /\ Len(amortizationData) = 0) =>
           AllZero(calculateAdvancedMetrics)

\* A schedule of two years with rental income, a debt repaid and a finite
\* gain.
C21_Witness ==
    /\ ScheduleExists
    /\ Len(amortizationData) = 24
    /\ rentalIncome > 0
    /\ FGt(loanAmount, calculateAdvancedMetrics.remainingDebt)
    /\ IsFin(calculateAdvancedMetrics.realPropertyGain)

\* No schedule, after a recalculation with a property value.
C21_WitnessEmpty ==
    /\ Calculated
    /\ Len(amortizationData) = 0
    /\ FGt(finalPropertyValue, Zero)
    /\ calculateAdvancedMetrics.netWorthWithProperty = Zero

----------------------------------------------------------------------------
(* Future value of monthly savings                                         *)

\* The future value as claimed: linear for r = 0, compounded for r > 0.
ClaimedFutureValue(savings, r, n) ==
    IF IsZero(r) THEN FMul(savings, FromInt(n))
    ELSE FMul(savings, FDiv(FSub(FPow(FAdd(One, r), n), One), r))

\* Both uses of the factor in the metrics m, the required return being
\* r >= 0 a month over n months.
FutureValuesOf(m, r, n) ==
    /\ m.totalAlternativeReturn =
           FAdd(investedEquity, ClaimedFutureValue(monthlyTotalCost, r, n))
    /\ FGt(monthlySavingsIfRenting(FromInt(alternativeRentCost)), Zero) =>
           m.totalRentVsBuyWealth =
               FAdd(investedEquity,
                    ClaimedFutureValue(
                        monthlySavingsIfRenting(FromInt(alternativeRentCost)),
                        r, n))
    /\ (IsZero(r) /\ IsFin(totalMonthlyCost) /\ IsFin(monthlyTotalCost)) =>
           /\ IsFin(m.totalAlternativeReturn)
           /\ IsFin(m.totalRentVsBuyWealth)

\* C22: when the monthly required return r is 0 the future value of a
\* monthly saving over n months is monthlySavings x n, with no division by
\* r; for r > 0 it is monthlySavings x ((1 + r)^n - 1) / r; in the
\* alternative wealth and in the classic rent-vs-buy wealth.
C22_FutureValueOfSavings ==
    (ScheduleExists /\ FGe(requiredReturn, Zero)) =>
        FutureValuesOf(calculateAdvancedMetrics, monthlyReturn,
                       Len(amortizationData))

\* A required return of 0 with savings when renting: both wealths are the
\* invested equity plus n times the monthly amount.
C22_Witness ==
    /\ ScheduleExists
    /\ ~costPending
    /\ IsZero(requiredReturn)
    /\ Len(amortizationData) = 24
    /\ FGt(monthlySavingsIfRenting(FromInt(alternativeRentCost)), Zero)
    /\ calculateAdvancedMetrics.totalRentVsBuyWealth =
           FAdd(totalDownPayment,
                FMul(monthlySavingsIfRenting(FromInt(alternativeRentCost)),
                     FromInt(24)))

\* A required return above 0 with savings when renting.
C22_WitnessCompound ==
    /\ ScheduleExists
    /\ ~costPending
    /\ FGt(requiredReturn, Zero)
    /\ FGt(monthlySavingsIfRenting(FromInt(alternativeRentCost)), Zero)
    /\ FGt(calculateAdvancedMetrics.totalRentVsBuyWealth,
           FAdd(investedEquity,
                FMul(monthlySavingsIfRenting(FromInt(alternativeRentCost)),
                     FromInt(Len(amortizationData)))))

----------------------------------------------------------------------------
(* Break-even rent                                                         *)

\* const classicRentVsBuyAdvantage = netWorthWithProperty -
\* totalRentVsBuyWealth, for a monthly rent.
classicRentVsBuyAdvantageAt(netWorthWithProperty, rent) ==
    FSub(netWorthWithProperty, totalRentVsBuyWealthAt(rent))

\* The advantage of the metrics m at the rent they report as break-even
\* is 0 up to a krone.
BalancedAtBreakEven(m) ==
    FLe(FAbs(classicRentVsBuyAdvantageAt(m.netWorthWithProperty,
                                         m.breakEvenRent)),
        One)

\* C23: the metrics hold a break-even rent, and the classic rent-vs-buy
\* advantage taken with that rent as the rent cost is 0 within rounding.
C23_BreakEvenRent ==
    (ScheduleExists /\ ~costPending) =>
        /\ "breakEvenRent" \in DOMAIN calculateAdvancedMetrics
        /\ BalancedAtBreakEven(calculateAdvancedMetrics)

\* Monthly rents from nothing to above every total monthly cost.
RentSamples == {0, 5000, 30000, 1000000}

\* The net worth with the property is below the invested equity.
WorthBelowEquity(m) == FLt(m.netWorthWithProperty, investedEquity)

\* Where the net worth with the property is below the invested equity no
\* rent balances the classic comparison: savings are only invested when
\* they are above 0, so the advantage stays below 0.
NoRentBalancesALoss ==
    (ScheduleExists /\ ~costPending
        /\ WorthBelowEquity(calculateAdvancedMetrics)) =>
        \A rent \in RentSamples :
            FLt(classicRentVsBuyAdvantageAt(
                    calculateAdvancedMetrics.netWorthWithProperty,
                    FromInt(rent)),
                Zero)

\* Such a state: a down payment above the net worth of the property.
NoRentBalancesALossHappens ==
    /\ ScheduleExists
    /\ ~costPending
    /\ WorthBelowEquity(calculateAdvancedMetrics)

----------------------------------------------------------------------------
(* Rendered outputs                                                        *)

\* The costs rendered are those of the payment and tax rendered.
CostsOfRenderedPayment ==
    /\ totalMonthlyCost = totalCostOf.totalMonthlyCost
    /\ netMonthlyCost = totalCostOf.netMonthlyCost

\* C24: after any sequence of input changes every rendered state holds
\* outputs of one input snapshot: totalMonthlyCost and netMonthlyCost are
\* calculatedMonthlyPayment plus the monthly fixed costs of the current
\* inputs and propertyTax (and the metrics are computed from them).
C24_NoPartialUpdates ==
    lastEvent # "mount" => CostsOfRenderedPayment

\* No effect is scheduled: the render the user is left with.
Stable == ~urlPending /\ ~recalcPending /\ ~costPending

\* Once the effects have run the costs are those of the payment.
StableCostsOfRenderedPayment == Stable => CostsOfRenderedPayment

\* A stable render after an input change, with a payment.
StableCostsOfRenderedPaymentHappens ==
    /\ Stable
    /\ lastEvent # "mount"
    /\ FGt(calculatedMonthlyPayment, Zero)
    /\ CostsOfRenderedPayment

----------------------------------------------------------------------------
(* Input ranges                                                            *)

\* The fields whose range the claim names.
ClaimedRanges ==
    {"interestRate", "loanTerm", "ownershipSplit", "annualAppreciation",
     "requiredReturn"}

\* The value of a field lies between the min and max of its slider.
InRange(field) ==
    /\ FLe(fieldMin(field), fieldValue(field))
    /\ FLe(fieldValue(field), fieldMax(field))

\* The recalculation effect is about to run on the inputs.
HandedToCalculation == recalcPending /\ ~urlPending

\* C25: after any sequence of slider moves, typing and blur events every
\* value handed to the calculation lies in its range (interest rate 0.1
\* to 20, term 1 to 40, ownership split 0 to 100, appreciation -10 to 15,
\* required return 1 to 15).
C25_InputsInRange ==
    HandedToCalculation => \A field \in ClaimedRanges : InRange(field)

\* The same for the values typed only, the link being in range.
C25_TypedInputsInRange ==
    (HandedToCalculation /\ lastEvent \in RangedFields) =>
        InRange(lastEvent)

\* A blur and a slider move leave their field in its range.
InRangeAfterBlurOrSlider ==
    [][(HandleBlur \/ HandleSliderChange) => InRange(lastEvent)']_vars

----------------------------------------------------------------------------
(* Loan type                                                               *)

\* C26: the loan type used for the calculations is annuity in every
\* reachable state.
C26_AlwaysAnnuity == loanType = "annuity"

\* No step changes the loan type: it has no setter.
LoanTypeNeverSet == [][loanType' = loanType]_vars

\* A serial loan has been calculated: the payment of the first month is
\* above the annuity payment of the same loan.
SerialLoanCalculated ==
    /\ Calculated
    /\ loanType = "serial"
    /\ FGt(loanAmount, Zero)
    /\ FGt(calculatedMonthlyPayment, annuityPaymentOf(loanAmount))

----------------------------------------------------------------------------
(* Link round trip                                                         *)

\* The inputs a link written now restores.
RestoredInputs == initialInputs(encodeParams(params))

\* C27: encoding the inputs into the fragment and loading the app from it
\* restores the same value for every input field, fields of value 0
\* included.
C27_LinkRoundTrip == Idle => RestoredInputs = params

\* No input with a default other than 0 is 0.
NoZeroInput ==
    /\ ~IsZero(interestRate)
    /\ ~IsZero(annualAppreciation)
    /\ ~IsZero(requiredReturn)
    /\ 0 \notin {loanTerm, downPayment1, ownershipSplit, municipalDues,
                 maintenance, alternativeRentCost, customPropertyTaxAmount,
                 desiredMonthlyPayment, propertyValue}

\* The inputs are restored where none of them is a 0 that the
\* initialisers replace.
RoundTripOfNonZeroInputs == (Idle /\ NoZeroInput) => RestoredInputs = params

\* A round trip of inputs that differ from the defaults.
RoundTripOfNonZeroInputsHappens ==
    /\ Idle
    /\ NoZeroInput
    /\ interestRate = FromInt(20)
    /\ loanTerm = 2
    /\ RestoredInputs = params

----------------------------------------------------------------------------
(* Debounced link                                                          *)

\* An input changes in this step.
InputChange == inputVars' # inputVars

\* The fragment is the encoding of the current inputs.
LinkCurrent == urlHash = encodeParams(params)

\* At most one timer is pending.
AtMostOneTimer == Len(timers) <= 1

\* An input change schedules the debounce effect, and the effect leaves
\* the one timer of the current inputs; what a timer writes is the
\* encoding of the current inputs.
DebounceStep ==
    /\ InputChange => urlPending'
    /\ DebounceEffect => timers' = <<params>>
    /\ urlHash' # urlHash => (TimerFires /\ LinkCurrent')

\* C28: at most one URL-update timer is pending at any time; every input
\* change cancels the pending timer and starts a new one, so the value
\* written is the latest input state; if the inputs stop changing the
\* fragment eventually equals the encoding of the current inputs.
C28_Debounce ==
    /\ []AtMostOneTimer
    /\ [][DebounceStep]_vars
    /\ ([]<><<InputChange>>_vars \/ <>[]LinkCurrent)

\* The fragment has been written after inputs were typed and clamped, and
\* no timer is left.
C28_Witness ==
    /\ Idle
    /\ timers = <<>>
    /\ lastEvent = "interestRate"
    /\ interestRate = FromInt(20)
    /\ loanTerm = 0
    /\ LinkCurrent

----------------------------------------------------------------------------
(* Chain of effects                                                        *)

\* The steps in which an effect stops being scheduled are the steps of
\* the effect.
EffectsRun ==
    [][/\ RecalculationRuns <=> RecalculateEffect
       /\ TotalCostRuns <=> TotalCostEffect]_vars

\* The price the recalculation takes for the current inputs.
CurrentPrice ==
    IF calculationMode = "byPayment"
    THEN calculateAffordability(totalDownPayment).maxPropertyPrice
    ELSE FromInt(propertyValue)

\* The loans, the tax and the costs rendered are those of the price.
OutputsOfPrice(currentPropertyValue) ==
    /\ finalPropertyValue = currentPropertyValue
    /\ loanAmount =
           FAdd(finalLoan(ownershipValue1(currentPropertyValue),
                          FromInt(downPayment1)),
                finalLoan(ownershipValue2(currentPropertyValue),
                          FromInt(downPayment2)))
    /\ propertyTax = calculatePropertyTax(currentPropertyValue,
                         propertyTaxMode, FromInt(customPropertyTaxAmount))
    /\ Len(amortizationData) =
           (IF FLe(loanAmount, Zero) \/ loanTerm <= 0 THEN 0
            ELSE loanTerm * 12)
    /\ CostsOfRenderedPayment

\* No step but an input change schedules the recalculation effect.
OnlyInputsSchedule == (~InputChange) => (recalcPending' => recalcPending)

\* C29: after an input change the chain of effects reaches a stable state
\* in a bounded number of render passes: no effect schedules the
\* recalculation effect again, and in the stable state the outputs are
\* those of the current inputs. An input change takes three renders at
\* most: its own, the one after the recalculation effect and the one after
\* the total cost effect.
C29_EffectsSettle ==
    /\ [](renderPasses <= 3)
    /\ [][OnlyInputsSchedule]_vars
    /\ [](Idle => OutputsOfPrice(CurrentPrice))
    /\ (~Idle ~> Idle)

\* A stable state after an input change, three renders on, with a
\* schedule.
C29_Witness ==
    /\ Idle
    /\ lastEvent = "loanTerm"
    /\ renderPasses = 3
    /\ Len(amortizationData) = 24
    /\ OutputsOfPrice(CurrentPrice)

----------------------------------------------------------------------------
(* Loan of the solved price                                                *)

\* The loan the solver returns for the current inputs.
SolvedMaxLoan == calculateAffordability(totalDownPayment).maxLoan

\* |a - b| <= price * 2^(3 - Precision): equal up to the roundoff of the
\* shares of the price.
SameShareSum(a, b, price) ==
    \/ a = b
    \/ FLe(FAbs(FSub(a, b)),
           FMul(FAbs(price), Fin(1, HalfP, 4 - 2 * Precision)))

\* C30: in byPayment mode the loan reported and amortized, loan1 + loan2
\* after the ownership split, is the maxLoan the solver returned, for every
\* split and every pair of down payments.
C30_LoanIsMaxLoan ==
    Solved => SameShareSum(loanAmount, SolvedMaxLoan, finalPropertyValue)

\* A down payment above the borrower's share of the solved price.
SurplusEquity ==
    \/ FLt(ownershipValue1(finalPropertyValue), FromInt(downPayment1))
    \/ FLt(ownershipValue2(finalPropertyValue), FromInt(downPayment2))

\* Where no down payment exceeds its borrower's share the loan is the
\* solver's; a surplus only raises it.
LoanIsMaxLoanWithoutSurplus ==
    Solved =>
        /\ ~SurplusEquity =>
               SameShareSum(loanAmount, SolvedMaxLoan, finalPropertyValue)
        /\ \/ FGe(loanAmount, SolvedMaxLoan)
           \/ SameShareSum(loanAmount, SolvedMaxLoan, finalPropertyValue)

\* A single owner and a second down payment: the loan amortized is the
\* solver's loan and the second down payment.
LoanAboveMaxLoan ==
    /\ Solved
    /\ ownershipSplit = 100
    /\ downPayment2 = 512000
    /\ FGt(SolvedMaxLoan, Zero)
    /\ SameShareSum(loanAmount, FAdd(SolvedMaxLoan, FromInt(downPayment2)),
                    finalPropertyValue)
    /\ Len(amortizationData) > 0

====
